---- MODULE Spec2Model ----
(***************************************************************************)
(* Model of the query-planning and temporal-filtering engine of the NTP    *)
(* foreign data wrapper (src/src/lib.rs, src/src/query_router.rs):         *)
(* qualifier extraction (parse_quals), date-window resolution, endpoint    *)
(* routing (route_query) and the post-fetch timestamp filter.              *)
(*                                                                         *)
(* Time is measured in ticks; a calendar day has TicksPerDay ticks.  A     *)
(* timestamptz cell, a parsed string literal and a row timestamp are all   *)
(* instants: ticks since 1970-01-01T00:00Z.  Date strings are kept as the  *)
(* text they are (year, month, day fields, or free text) and converted to  *)
(* and from day numbers with the proleptic Gregorian calendar, as          *)
(* chrono's NaiveDate parse/format do.                                     *)
(***************************************************************************)
EXTENDS Integers, Sequences, FiniteSets, TLC

\* ---------------------------------------------------------------- bounds
\* Longest qualifier list of a scan.
MaxQuals == 2
\* Calendar days after FirstDay that literals and rows may name.
MaxDayOff == 1
\* Resolution of the time of day: ticks per calendar day.
TicksPerDay == 2
\* Longest batch of fetched rows (SpecFilter); most rows one begin_scan
\* parses from the responses of its plans (SpecScan).
MaxRows == 2
\* Seconds the host clock advances at most (SpecScan, SpecManager).
MaxClock == 2
\* Token requests the manager sends at most (SpecManager).
MaxTokens == 3

\* ------------------------------------------------------------- options
\* Option<T>: None is the empty tuple, Some(x) the one-element tuple.
None == <<>>
Some(x) == <<x>>
IsSome(o) == Len(o) = 1
IsNone(o) == Len(o) = 0
Unwrap(o) == o[1]

\* Result<T, String>
Ok(x) == [ok |-> TRUE, v |-> <<x>>, err |-> ""]
Err(e) == [ok |-> FALSE, v |-> <<>>, err |-> e]

\* ------------------------------------------------------------ calendar
\* chrono::NaiveDate validity of a (year, month, day) triple.
IsLeap(y) == (y % 4 = 0 /\ y % 100 # 0) \/ y % 400 = 0

DaysInMonth(y, m) ==
    IF m = 2 THEN (IF IsLeap(y) THEN 29 ELSE 28)
    ELSE IF m \in {4, 6, 9, 11} THEN 30 ELSE 31

ValidYMD(c) ==
    /\ c.m \in 1..12
    /\ c.d >= 1
    /\ c.d <= DaysInMonth(c.y, c.m)

\* Day number (days since 1970-01-01) of a valid civil date.
days_from_civil(c) ==
    LET y1  == IF c.m <= 2 THEN c.y - 1 ELSE c.y
        era == y1 \div 400
        yoe == y1 - era * 400
        mp  == IF c.m > 2 THEN c.m - 3 ELSE c.m + 9
        doy == (153 * mp + 2) \div 5 + c.d - 1
        doe == yoe * 365 + yoe \div 4 - yoe \div 100 + doy
    IN  era * 146097 + doe - 719468

\* Civil date of a day number.
civil_from_days(n) ==
    LET z   == n + 719468
        era == z \div 146097
        doe == z - era * 146097
        yoe == (doe - doe \div 1460 + doe \div 36524 - doe \div 146096) \div 365
        doy == doe - (365 * yoe + yoe \div 4 - yoe \div 100)
        mp  == (5 * doy + 2) \div 153
        d   == doy - (153 * mp + 2) \div 5 + 1
        m   == IF mp < 10 THEN mp + 3 ELSE mp - 9
        y   == yoe + era * 400
    IN  [y |-> IF m <= 2 THEN y + 1 ELSE y, m |-> m, d |-> d]

\* ------------------------------------------------------------- strings
\* A string is modelled by its shape:
\*   "date"    YYYY-MM-DD (ten characters; the fields may be out of range)
\*   "rfc3339" YYYY-MM-DDThh:mm:ss+oo:oo (tod ticks into the day, offset off)
\*   "naive"   YYYY-MM-DDThh:mm:ss (no zone designator)
\*   "text"    any other text (no 'T' in it, not ten characters long)
NoYMD == [y |-> 0, m |-> 0, d |-> 0]
DateStr(c) == [kind |-> "date", ymd |-> c, tod |-> 0, off |-> 0, txt |-> ""]
Rfc3339Str(c, t, o) == [kind |-> "rfc3339", ymd |-> c, tod |-> t, off |-> o, txt |-> ""]
NaiveStr(c, t) == [kind |-> "naive", ymd |-> c, tod |-> t, off |-> 0, txt |-> ""]
TextStr(s) == [kind |-> "text", ymd |-> NoYMD, tod |-> 0, off |-> 0, txt |-> s]

\* NaiveDate::parse_from_str(s, "%Y-%m-%d"): the day number, or None.
parse_naive_date(s) ==
    IF s.kind = "date" /\ ValidYMD(s.ymd) THEN Some(days_from_civil(s.ymd)) ELSE None

\* date.format("%Y-%m-%d").to_string()
format_date(n) == DateStr(civil_from_days(n))

\* DateTime::parse_from_rfc3339(s).timestamp_micros(): the instant, or None.
parse_from_rfc3339(s) ==
    IF s.kind = "rfc3339" /\ ValidYMD(s.ymd)
    THEN Some(days_from_civil(s.ymd) * TicksPerDay + s.tod - s.off)
    ELSE None

\* ------------------------------------------------- lib.rs: date helpers
\* Last day chrono's DateTime can represent (+262142-12-31).
ChronoMaxDay == days_from_civil([y |-> 262142, m |-> 12, d |-> 31])

\* micros_to_date_string: the UTC calendar date of a timestamptz cell, or an
\* error when DateTime::from_timestamp rejects it.  (Cells are not negative
\* here, so the truncating division of the source is the floor.)
micros_to_date_string(micros) ==
    IF micros \div TicksPerDay > ChronoMaxDay
    THEN Err("Invalid timestamp")
    ELSE Ok(format_date(micros \div TicksPerDay))

\* add_days_to_date: parse YYYY-MM-DD, move by days, format again.
add_days_to_date(date_str, days) ==
    LET date == parse_naive_date(date_str)
    IN  IF IsNone(date)
        THEN Err("Invalid date format")
        ELSE Ok(format_date(Unwrap(date) + days))

\* parse_string_to_micros: RFC 3339 first, then a date at 00:00:00 UTC.
parse_string_to_micros(s) ==
    IF IsSome(parse_from_rfc3339(s))
    THEN parse_from_rfc3339(s)
    ELSE IF IsSome(parse_naive_date(s))
         THEN Some(Unwrap(parse_naive_date(s)) * TicksPerDay)
         ELSE None

\* extract_date_component: a ten-character string as it is, otherwise the
\* part before the first 'T'.
extract_date_component(s) ==
    IF s.kind = "date" THEN s
    ELSE IF s.kind \in {"rfc3339", "naive"} THEN DateStr(s.ymd)
    ELSE s

\* ------------------------------------------ lib.rs: the timestamp filter
\* TimestampBounds
TimestampBounds(start, start_operator, end, end_operator) ==
    [start |-> start, start_operator |-> start_operator,
     end |-> end, end_operator |-> end_operator]

\* matches_timestamp_bounds with a row timestamp that fails to parse let
\* through instead of excluded.
matches_timestamp_bounds_lenient(timestamp_str, bounds) ==
    LET parsed == parse_from_rfc3339(timestamp_str)
        row == Unwrap(parsed)
        sop == bounds.start_operator
        eop == bounds.end_operator
        matches_start ==
            IF IsNone(bounds.start) THEN TRUE
            ELSE IF sop = Some(">=") THEN row >= Unwrap(bounds.start)
            ELSE IF sop = Some(">") THEN row > Unwrap(bounds.start)
            ELSE IF sop = Some("=") THEN row = Unwrap(bounds.start)
            ELSE TRUE
        matches_end ==
            IF IsNone(bounds.end) THEN TRUE
            ELSE IF eop = Some("<") THEN row < Unwrap(bounds.end)
            ELSE IF eop = Some("<=") THEN row <= Unwrap(bounds.end)
            ELSE IF eop = Some("=") THEN row = Unwrap(bounds.end)
            ELSE TRUE
    IN  IF IsNone(parsed) THEN TRUE ELSE matches_start /\ matches_end

\* matches_timestamp_bounds with the strict operators compared as their
\* inclusive counterparts.
matches_timestamp_bounds_inclusive(timestamp_str, bounds) ==
    LET parsed == parse_from_rfc3339(timestamp_str)
        row == Unwrap(parsed)
        matches_start ==
            IF IsNone(bounds.start) THEN TRUE
            ELSE IF bounds.start_operator \in {Some(">="), Some(">")}
            THEN row >= Unwrap(bounds.start)
            ELSE IF bounds.start_operator = Some("=") THEN row = Unwrap(bounds.start)
            ELSE TRUE
        matches_end ==
            IF IsNone(bounds.end) THEN TRUE
            ELSE IF bounds.end_operator \in {Some("<"), Some("<=")}
            THEN row <= Unwrap(bounds.end)
            ELSE IF bounds.end_operator = Some("=") THEN row = Unwrap(bounds.end)
            ELSE TRUE
    IN  IF IsNone(parsed) THEN FALSE ELSE matches_start /\ matches_end

\* matches_timestamp_bounds(timestamp_str, bounds)
matches_timestamp_bounds(timestamp_str, bounds) ==
    LET parsed == parse_from_rfc3339(timestamp_str)
        row == Unwrap(parsed)
        sop == bounds.start_operator
        eop == bounds.end_operator
        matches_start ==
            IF IsNone(bounds.start) THEN TRUE
            ELSE IF sop = Some(">=") THEN row >= Unwrap(bounds.start)
            ELSE IF sop = Some(">") THEN row > Unwrap(bounds.start)
            ELSE IF sop = Some("=") THEN row = Unwrap(bounds.start)
            ELSE TRUE
        matches_end ==
            IF IsNone(bounds.end) THEN TRUE
            ELSE IF eop = Some("<") THEN row < Unwrap(bounds.end)
            ELSE IF eop = Some("<=") THEN row <= Unwrap(bounds.end)
            ELSE IF eop = Some("=") THEN row = Unwrap(bounds.end)
            ELSE TRUE
    IN  IF IsNone(parsed) THEN FALSE ELSE matches_start /\ matches_end

\* The filter written as removal during iteration: after a row is removed
\* the row that follows it is passed over unexamined.
RECURSIVE filter_collect_removing_in_place(_, _)
filter_collect_removing_in_place(rows, bounds) ==
    IF rows = <<>> THEN <<>>
    ELSE IF matches_timestamp_bounds(Head(rows).timestamp_utc, bounds)
         THEN <<Head(rows)>> \o filter_collect_removing_in_place(Tail(rows), bounds)
         ELSE IF Tail(rows) = <<>> THEN <<>>
              ELSE <<Head(Tail(rows))>>
                       \o filter_collect_removing_in_place(Tail(Tail(rows)), bounds)

\* The filter as take_while: it stops at the first row outside the bounds.
RECURSIVE filter_collect_take_while(_, _)
filter_collect_take_while(rows, bounds) ==
    IF rows = <<>> THEN <<>>
    ELSE IF matches_timestamp_bounds(Head(rows).timestamp_utc, bounds)
         THEN <<Head(rows)>> \o filter_collect_take_while(Tail(rows), bounds)
         ELSE <<>>

\* rows.into_iter().filter(|row| matches_timestamp_bounds(..)).collect()
RECURSIVE filter_collect(_, _)
filter_collect(rows, bounds) ==
    IF rows = <<>> THEN <<>>
    ELSE IF matches_timestamp_bounds(Head(rows).timestamp_utc, bounds)
         THEN <<Head(rows)>> \o filter_collect(Tail(rows), bounds)
         ELSE filter_collect(Tail(rows), bounds)

\* The row filter with absent bounds treated as bounds that constrain
\* nothing: every row still goes through matches_timestamp_bounds.
filter_rows_always_matching(rows, bounds) ==
    IF IsSome(bounds) THEN filter_collect(rows, Unwrap(bounds))
    ELSE filter_collect(rows, TimestampBounds(None, None, None, None))

\* filter_renewable_rows / filter_price_rows / filter_grid_status_rows /
\* filter_redispatch_rows: the four functions have the same body.
filter_rows(rows, bounds) ==
    IF IsSome(bounds) THEN filter_collect(rows, Unwrap(bounds)) ELSE rows

\* ------------------------------------------------------ query_router.rs
DateRange(start, end) == [start |-> start, end |-> end]

QualFilters(pt, dc, prt, range, bounds, table) ==
    [product_type |-> pt, data_category |-> dc, price_type |-> prt,
     timestamp_range |-> range, timestamp_bounds |-> bounds, table_name |-> table]

\* The slices build_api_url takes of a YYYY-MM-DD text: characters 0..4
\* are the four digits of the year, characters 5..7 the two digits of the
\* month.
year_slice(date) == [digits |-> 4, n |-> date.ymd.y]
month_slice(date) == [digits |-> 2, n |-> date.ymd.m]

\* build_api_url with the marktpraemie months both sliced from date_from.
build_api_url_one_month(base_url, endpoint, product, date_from, date_to) ==
    LET base == [host |-> base_url.host, slashes |-> 0]
    IN  IF endpoint = "Jahresmarktpraemie"
        THEN [base |-> base, endpoint |-> endpoint, product |-> None,
              nums |-> <<year_slice(date_from)>>, dates |-> <<>>]
        ELSE IF endpoint = "marktpraemie"
        THEN [base |-> base, endpoint |-> endpoint, product |-> None,
              nums |-> <<month_slice(date_from), year_slice(date_from),
                         month_slice(date_from), year_slice(date_to)>>,
              dates |-> <<>>]
        ELSE [base |-> base, endpoint |-> endpoint, product |-> product,
              nums |-> <<>>, dates |-> <<date_from, date_to>>]

\* build_api_url: the request target as its path segments after the base:
\* the endpoint, then the product (if the shape has one), then the sliced
\* numbers or the two dates.  trim_end_matches('/') drops every trailing
\* slash of the base.
build_api_url(base_url, endpoint, product, date_from, date_to) ==
    LET base == [host |-> base_url.host, slashes |-> 0]
    IN  IF endpoint = "Jahresmarktpraemie"
        THEN [base |-> base, endpoint |-> endpoint, product |-> None,
              nums |-> <<year_slice(date_from)>>, dates |-> <<>>]
        ELSE IF endpoint = "marktpraemie"
        THEN [base |-> base, endpoint |-> endpoint, product |-> None,
              nums |-> <<month_slice(date_from), year_slice(date_from),
                         month_slice(date_to), year_slice(date_to)>>,
              dates |-> <<>>]
        ELSE [base |-> base, endpoint |-> endpoint, product |-> product,
              nums |-> <<>>, dates |-> <<date_from, date_to>>]

QueryPlan(endpoint, product, date_from, date_to, api_url) ==
    [endpoint |-> endpoint, product |-> product, date_from |-> date_from,
     date_to |-> date_to, api_url |-> api_url]

\* validate_date_range with a window of one date rejected as well.
validate_date_range_strict(date_from, date_to) ==
    LET from == parse_naive_date(date_from)
        to == parse_naive_date(date_to)
    IN  IF IsNone(from) THEN Err("Invalid date format for date_from")
        ELSE IF IsNone(to) THEN Err("Invalid date format for date_to")
        ELSE IF Unwrap(from) >= Unwrap(to) THEN Err("Invalid date range")
        ELSE Ok("unit")

\* validate_date_range: both dates parse and from <= to.
validate_date_range(date_from, date_to) ==
    LET from == parse_naive_date(date_from)
        to == parse_naive_date(date_to)
    IN  IF IsNone(from) THEN Err("Invalid date format for date_from")
        ELSE IF IsNone(to) THEN Err("Invalid date format for date_to")
        ELSE IF Unwrap(from) > Unwrap(to) THEN Err("Invalid date range")
        ELSE Ok("unit")

\* extract_date_range with a fallback window that ends a day early.
extract_date_range_short_fallback(timestamp_range) ==
    IF IsSome(timestamp_range)
    THEN Unwrap(timestamp_range)
    ELSE DateRange(DateStr([y |-> 2024, m |-> 10, d |-> 18]),
                   DateStr([y |-> 2024, m |-> 10, d |-> 24]))

\* extract_date_range: the filter's range, or the fixed fallback window
\* 2024-10-18 .. 2024-10-25.
extract_date_range(timestamp_range) ==
    IF IsSome(timestamp_range)
    THEN Unwrap(timestamp_range)
    ELSE DateRange(DateStr([y |-> 2024, m |-> 10, d |-> 18]),
                   DateStr([y |-> 2024, m |-> 10, d |-> 25]))

\* map_product_to_api without the arm for wind_offshore forecasts and
\* extrapolations: the pair falls through to the unknown-product error.
map_product_to_api_without_empty_arm(product_type, category) ==
    IF product_type = "solar" THEN Ok(<<"Solar">>)
    ELSE IF product_type = "wind_onshore" /\ category \in {"forecast", "extrapolation"}
    THEN Ok(<<"Wind">>)
    ELSE IF product_type = "wind_onshore" /\ category = "online_actual"
    THEN Ok(<<"Windonshore">>)
    ELSE IF product_type = "wind_offshore" /\ category = "online_actual"
    THEN Ok(<<"Windoffshore">>)
    ELSE Err("Unknown product type")

\* map_product_to_api
map_product_to_api(product_type, category) ==
    IF product_type = "solar" THEN Ok(<<"Solar">>)
    ELSE IF product_type = "wind_onshore" /\ category \in {"forecast", "extrapolation"}
    THEN Ok(<<"Wind">>)
    ELSE IF product_type = "wind_onshore" /\ category = "online_actual"
    THEN Ok(<<"Windonshore">>)
    ELSE IF product_type = "wind_offshore" /\ category = "online_actual"
    THEN Ok(<<"Windoffshore">>)
    ELSE IF product_type = "wind_offshore" /\ category \in {"forecast", "extrapolation"}
    THEN Ok(<<>>)
    ELSE Err("Unknown product type")

\* map_category_to_endpoint with a default endpoint for every other value.
map_category_to_endpoint_defaulting(category) ==
    IF category = "extrapolation" THEN Ok("hochrechnung")
    ELSE IF category = "online_actual" THEN Ok("onlinehochrechnung")
    ELSE Ok("prognose")

\* map_category_to_endpoint
map_category_to_endpoint(category) ==
    IF category = "forecast" THEN Ok("prognose")
    ELSE IF category = "extrapolation" THEN Ok("hochrechnung")
    ELSE IF category = "online_actual" THEN Ok("onlinehochrechnung")
    ELSE Err("Unknown data category")

\* map_price_type_to_endpoint
map_price_type_to_endpoint(price_type) ==
    IF price_type = "spot_market" THEN Ok("Spotmarktpreise")
    ELSE IF price_type = "market_premium" THEN Ok("marktpraemie")
    ELSE IF price_type = "annual_market_value" THEN Ok("Jahresmarktpraemie")
    ELSE IF price_type = "negative_flag" THEN Ok("NegativePreise")
    ELSE Err("Unknown price type")

\* The nested loops of route_renewable over products x categories x api
\* products, from position (i, j) on; the first mapping error ends the
\* function and drops the plans pushed so far.
RECURSIVE renewable_loop(_, _, _, _, _, _, _)
renewable_loop(products, categories, i, j, plans, date_range, base_url) ==
    IF i > Len(products) THEN Ok(plans)
    ELSE IF j > Len(categories)
    THEN renewable_loop(products, categories, i + 1, 1, plans, date_range, base_url)
    ELSE LET api_products == map_product_to_api(products[i], categories[j])
             api_endpoint == map_category_to_endpoint(categories[j])
             pushed == [k \in 1..Len(Unwrap(api_products.v)) |->
                          QueryPlan(Unwrap(api_endpoint.v),
                                    Some(Unwrap(api_products.v)[k]),
                                    date_range.start, date_range.end,
                                    build_api_url(base_url, Unwrap(api_endpoint.v),
                                                  Some(Unwrap(api_products.v)[k]),
                                                  date_range.start, date_range.end))]
         IN  IF ~api_products.ok THEN Err(api_products.err)
             ELSE IF ~api_endpoint.ok THEN Err(api_endpoint.err)
             ELSE renewable_loop(products, categories, i, j + 1,
                                 plans \o pushed, date_range, base_url)

\* route_renewable with the unconstrained products listed alphabetically
\* instead of in their declaration order.
route_renewable_alphabetical(filters, base_url) ==
    LET date_range == extract_date_range(filters.timestamp_range)
        valid == validate_date_range(date_range.start, date_range.end)
        products == IF IsSome(filters.product_type)
                    THEN <<Unwrap(filters.product_type)>>
                    ELSE <<"solar", "wind_offshore", "wind_onshore">>
        categories == IF IsSome(filters.data_category)
                      THEN <<Unwrap(filters.data_category)>>
                      ELSE <<"forecast", "extrapolation", "online_actual">>
    IN  IF ~valid.ok THEN Err(valid.err)
        ELSE renewable_loop(products, categories, 1, 1, <<>>, date_range, base_url)

\* route_renewable
route_renewable(filters, base_url) ==
    LET date_range == extract_date_range(filters.timestamp_range)
        valid == validate_date_range(date_range.start, date_range.end)
        products == IF IsSome(filters.product_type)
                    THEN <<Unwrap(filters.product_type)>>
                    ELSE <<"solar", "wind_onshore", "wind_offshore">>
        categories == IF IsSome(filters.data_category)
                      THEN <<Unwrap(filters.data_category)>>
                      ELSE <<"forecast", "extrapolation", "online_actual">>
    IN  IF ~valid.ok THEN Err(valid.err)
        ELSE renewable_loop(products, categories, 1, 1, <<>>, date_range, base_url)

\* route_prices with the fallback window on every plan, whatever range the
\* filters hold.
route_prices_ignoring_range(filters, base_url) ==
    LET date_range == extract_date_range(None)
        valid == validate_date_range(date_range.start, date_range.end)
        mapped == map_price_type_to_endpoint(Unwrap(filters.price_type))
        endpoints == IF IsSome(filters.price_type)
                     THEN <<Unwrap(mapped.v)>>
                     ELSE <<"Spotmarktpreise", "NegativePreise",
                            "marktpraemie", "Jahresmarktpraemie">>
    IN  IF ~valid.ok THEN Err(valid.err)
        ELSE IF IsSome(filters.price_type) /\ ~mapped.ok THEN Err(mapped.err)
        ELSE Ok([k \in 1..Len(endpoints) |->
                   QueryPlan(endpoints[k], None, date_range.start, date_range.end,
                             build_api_url(base_url, endpoints[k], None,
                                           date_range.start, date_range.end))])

\* route_prices
route_prices(filters, base_url) ==
    LET date_range == extract_date_range(filters.timestamp_range)
        valid == validate_date_range(date_range.start, date_range.end)
        mapped == map_price_type_to_endpoint(Unwrap(filters.price_type))
        endpoints == IF IsSome(filters.price_type)
                     THEN <<Unwrap(mapped.v)>>
                     ELSE <<"Spotmarktpreise", "NegativePreise",
                            "marktpraemie", "Jahresmarktpraemie">>
    IN  IF ~valid.ok THEN Err(valid.err)
        ELSE IF IsSome(filters.price_type) /\ ~mapped.ok THEN Err(mapped.err)
        ELSE Ok([k \in 1..Len(endpoints) |->
                   QueryPlan(endpoints[k], None, date_range.start, date_range.end,
                             build_api_url(base_url, endpoints[k], None,
                                           date_range.start, date_range.end))])

\* route_grid_status / route_redispatch: one plan for the table's endpoint.
route_single(endpoint, filters, base_url) ==
    LET date_range == extract_date_range(filters.timestamp_range)
        valid == validate_date_range(date_range.start, date_range.end)
    IN  IF ~valid.ok THEN Err(valid.err)
        ELSE Ok(<<QueryPlan(endpoint, None, date_range.start, date_range.end,
                            build_api_url(base_url, endpoint, None,
                                          date_range.start, date_range.end))>>)

route_grid_status(filters, base_url) == route_single("TrafficLight", filters, base_url)

route_redispatch(filters, base_url) == route_single("redispatch", filters, base_url)

\* route_query
route_query(filters, base_url) ==
    IF filters.table_name = "renewable_energy_timeseries"
    THEN route_renewable(filters, base_url)
    ELSE IF filters.table_name = "electricity_market_prices"
    THEN route_prices(filters, base_url)
    ELSE IF filters.table_name = "redispatch_events"
    THEN route_redispatch(filters, base_url)
    ELSE IF filters.table_name = "grid_status_timeseries"
    THEN route_grid_status(filters, base_url)
    ELSE Err("Unknown table")

\* --------------------------------------------------- lib.rs: the context
\* A qualifier of ctx.get_quals(): field, operator and a cell value
\* (Cell::Timestamptz(micros), Cell::String(s), or another cell type).
Qual(f, o, v) == [field |-> f, operator |-> o, value |-> v]
TzCell(m) == [cell |-> "Timestamptz", micros |-> m, s |-> TextStr("")]
StrCell(s) == [cell |-> "String", micros |-> 0, s |-> s]
OtherCell == [cell |-> "I64", micros |-> 0, s |-> TextStr("")]

\* detect_table_name: the table option when one is set (keys table, object,
\* name), else the first discriminator column, else the renewable table.
RECURSIVE detect_by_column(_)
detect_by_column(columns) ==
    IF columns = <<>> THEN "renewable_energy_timeseries"
    ELSE IF Head(columns) = "product_type" THEN "renewable_energy_timeseries"
    ELSE IF Head(columns) = "price_type" THEN "electricity_market_prices"
    ELSE IF Head(columns) = "reason" THEN "redispatch_events"
    ELSE IF Head(columns) = "grid_status" THEN "grid_status_timeseries"
    ELSE detect_by_column(Tail(columns))

detect_table_name(table_opts, columns) ==
    IF IsSome(table_opts) THEN Unwrap(table_opts) ELSE detect_by_column(columns)

\* ---------------------------------------------------------------- state
VARIABLES
    quals,          \* ctx.get_quals(): the qualifier list of the scan
    table_opts,     \* ctx.get_options(Table): the table option, if set
    columns,        \* ctx.get_columns(): names of the projected columns
    pc,             \* where begin_scan is: "quals", "route", "fetch",
                    \* "filter", "done", or "error" once it has returned Err
    qi,             \* parse_quals: index of the next qualifier of the loop
    loc,            \* parse_quals: its mutable locals
    filters,        \* Option<QualFilters>: what parse_quals returned
    plans,          \* Vec<QueryPlan>: what route_query returned
    err,            \* the error begin_scan returned: the prefixes of its
                    \* message, outermost first (empty while there is none)
    all_rows,       \* rows parsed from the responses of all plans
    filtered_rows,  \* rows left by the timestamp filter
    requests,       \* the request targets handed to fetch_with_oauth_retry,
                    \* in the order of the calls
    plan_idx,       \* begin_scan: index of the plan the fetch loop is at
    step,           \* fetch_with_oauth_retry: "start", "get", "retry" (a 401
                    \* was answered), "retry_get"
    token,          \* begin_scan: its local `token`
    response,       \* the last answer of http::get (None before the first)
    gets,           \* GET requests issued for the current plan
    headers,        \* NtpFdw.headers: the token of the authorization header
    cached_token,   \* OAuth2Manager.cached_token: Option<CachedToken>
    now,            \* time::epoch_secs(), counted from the call of init
    token_requests, \* POST requests fetch_token has issued
    renewable_rows,             \* NtpFdw: the four row buffers,
    price_rows,
    redispatch_rows,
    grid_status_rows,
    renewable_row_position,     \* their read positions,
    price_row_position,
    redispatch_row_position,
    grid_status_row_position,
    current_table,              \* and the table being scanned
    last_call,      \* the call that returned last, with what iter_scan
                    \* returned: "init", "begin_scan", "iter_scan: row",
                    \* "iter_scan: none", "iter_scan: error", "re_scan",
                    \* "end_scan"; of the manager on its own "get_token:
                    \* cached", "get_token: requested", "clear_cache"
    emitted         \* rows iter_scan has pushed since begin_scan or re_scan

fetch_vars == <<plan_idx, step, token, response, gets>>

oauth_vars == <<headers, cached_token, now, token_requests>>

buffer_vars ==
    <<renewable_rows, price_rows, redispatch_rows, grid_status_rows,
      renewable_row_position, price_row_position, redispatch_row_position,
      grid_status_row_position, current_table>>

host_vars == <<last_call, emitted>>

scan_vars ==
    <<quals, table_opts, columns, pc, qi, loc, filters, plans, err, all_rows,
      filtered_rows, requests>>

vars == <<scan_vars, fetch_vars, oauth_vars, buffer_vars, host_vars>>

\* NtpFdw.api_base_url, as set by init from the server options.
api_base_url == [host |-> "https://ds.netztransparenz.de", slashes |-> 1]

\* The locals of parse_quals before its loop.
InitLoc ==
    [product_type |-> None, data_category |-> None, price_type |-> None,
     timestamp_start |-> None, timestamp_end |-> None,
     ts_bound_start |-> None, ts_bound_start_op |-> None,
     ts_bound_end |-> None, ts_bound_end_op |-> None]

\* ------------------------------------------------- parse_quals: the loop
\* The timestamptz branch with `=` taken as a lower bound only.
qual_timestamptz_equality_as_lower(l, operator, micros, date_str) ==
    IF operator \in {">=", ">", "="}
    THEN [l EXCEPT !.timestamp_start = Some(date_str),
                   !.ts_bound_start = Some(micros),
                   !.ts_bound_start_op = Some(IF operator = "=" THEN ">=" ELSE operator)]
    ELSE IF operator \in {"<", "<="}
    THEN [l EXCEPT !.timestamp_end = Some(date_str),
                   !.ts_bound_end = Some(micros),
                   !.ts_bound_end_op = Some(operator)]
    ELSE l

\* Cell::Timestamptz(micros) under `operator`, its date already extracted.
qual_timestamptz(l, operator, micros, date_str) ==
    IF operator \in {">=", ">"}
    THEN [l EXCEPT !.timestamp_start = Some(date_str),
                   !.ts_bound_start = Some(micros),
                   !.ts_bound_start_op = Some(operator)]
    ELSE IF operator \in {"<", "<="}
    THEN [l EXCEPT !.timestamp_end = Some(date_str),
                   !.ts_bound_end = Some(micros),
                   !.ts_bound_end_op = Some(operator)]
    ELSE IF operator = "="
    THEN [l EXCEPT !.timestamp_start = Some(date_str),
                   !.timestamp_end = Some(date_str),
                   !.ts_bound_start = Some(micros),
                   !.ts_bound_start_op = Some(">="),
                   !.ts_bound_end = Some(micros),
                   !.ts_bound_end_op = Some("<=")]
    ELSE l

\* Cell::String(date_str) under `operator`: the date component always, the
\* instant only if parse_string_to_micros returns one.
qual_string(l, operator, date_str) ==
    LET date_only == extract_date_component(date_str)
        micros == parse_string_to_micros(date_str)
    IN  IF operator \in {">=", ">"}
        THEN IF IsSome(micros)
             THEN [l EXCEPT !.timestamp_start = Some(date_only),
                            !.ts_bound_start = micros,
                            !.ts_bound_start_op = Some(operator)]
             ELSE [l EXCEPT !.timestamp_start = Some(date_only)]
        ELSE IF operator \in {"<", "<="}
        THEN IF IsSome(micros)
             THEN [l EXCEPT !.timestamp_end = Some(date_only),
                            !.ts_bound_end = micros,
                            !.ts_bound_end_op = Some(operator)]
             ELSE [l EXCEPT !.timestamp_end = Some(date_only)]
        ELSE IF operator = "="
        THEN IF IsSome(micros)
             THEN [l EXCEPT !.timestamp_start = Some(date_only),
                            !.timestamp_end = Some(date_only),
                            !.ts_bound_start = micros,
                            !.ts_bound_start_op = Some(">="),
                            !.ts_bound_end = micros,
                            !.ts_bound_end_op = Some("<=")]
             ELSE [l EXCEPT !.timestamp_start = Some(date_only),
                            !.timestamp_end = Some(date_only)]
        ELSE l

\* product_type / data_category / price_type: only `=` with a string cell
\* is taken (the text of the string is kept).
qual_categorical(l, q) ==
    IF q.operator = "=" /\ q.value.cell = "String"
    THEN [l EXCEPT ![q.field] = Some(q.value.s.txt)]
    ELSE l

InLoop == pc = "quals" /\ qi <= Len(quals)

QualCategorical ==
    /\ InLoop
    /\ quals[qi].field \in {"product_type", "data_category", "price_type"}
    /\ loc' = qual_categorical(loc, quals[qi])
    /\ qi' = qi + 1
    /\ UNCHANGED <<quals, table_opts, columns, pc, filters, plans, err, all_rows, filtered_rows, requests,
                 fetch_vars, oauth_vars, buffer_vars, host_vars>>

QualTimestamptz ==
    /\ InLoop
    /\ quals[qi].field = "timestamp_utc"
    /\ quals[qi].value.cell = "Timestamptz"
    /\ LET date_str == micros_to_date_string(quals[qi].value.micros)
       IN  IF date_str.ok
           THEN /\ loc' = qual_timestamptz(loc, quals[qi].operator,
                                           quals[qi].value.micros, Unwrap(date_str.v))
                /\ qi' = qi + 1
                /\ UNCHANGED <<pc, err>>
           ELSE /\ pc' = "error"
                /\ err' = <<"Failed to parse quals", "Failed to parse timestamp_utc",
                            date_str.err>>
                /\ UNCHANGED <<loc, qi>>
    /\ UNCHANGED <<quals, table_opts, columns, filters, plans, all_rows, filtered_rows, requests,
                 fetch_vars, oauth_vars, buffer_vars, host_vars>>

QualTimestampString ==
    /\ InLoop
    /\ quals[qi].field = "timestamp_utc"
    /\ quals[qi].value.cell = "String"
    /\ loc' = qual_string(loc, quals[qi].operator, quals[qi].value.s)
    /\ qi' = qi + 1
    /\ UNCHANGED <<quals, table_opts, columns, pc, filters, plans, err, all_rows, filtered_rows, requests,
                 fetch_vars, oauth_vars, buffer_vars, host_vars>>

\* Any other field, and a timestamp_utc qualifier with another cell type.
QualIgnored ==
    /\ InLoop
    /\ \/ quals[qi].field \notin {"product_type", "data_category", "price_type",
                                  "timestamp_utc"}
       \/ /\ quals[qi].field = "timestamp_utc"
          /\ quals[qi].value.cell \notin {"Timestamptz", "String"}
    /\ qi' = qi + 1
    /\ UNCHANGED <<quals, table_opts, columns, pc, loc, filters, plans, err, all_rows, filtered_rows, requests,
                 fetch_vars, oauth_vars, buffer_vars, host_vars>>

\* ------------------------------------- parse_quals: range and bounds
\* The range match as it was before the same-date adjustment: the end date
\* moves only when time bounds are present.
build_timestamp_range_without_same_date(l) ==
    LET has_time_bounds == IsSome(l.ts_bound_start) \/ IsSome(l.ts_bound_end)
        start == Unwrap(l.timestamp_start)
        end == Unwrap(l.timestamp_end)
        adjusted_end == IF has_time_bounds THEN add_days_to_date(end, 1) ELSE Ok(end)
        end7 == add_days_to_date(start, 7)
        start7 == add_days_to_date(end, -7)
    IN  IF IsSome(l.timestamp_start) /\ IsSome(l.timestamp_end)
        THEN IF adjusted_end.ok
             THEN Ok(Some(DateRange(start, Unwrap(adjusted_end.v))))
             ELSE Err(adjusted_end.err)
        ELSE IF IsSome(l.timestamp_start)
        THEN IF end7.ok
             THEN Ok(Some(DateRange(start, Unwrap(end7.v))))
             ELSE Err(end7.err)
        ELSE IF IsSome(l.timestamp_end)
        THEN IF start7.ok
             THEN Ok(Some(DateRange(Unwrap(start7.v), end)))
             ELSE Err(start7.err)
        ELSE Ok(None)

\* The range match with the upper-only window counted forwards from the
\* upper date instead of backwards.
build_timestamp_range_window_forwards(l) ==
    LET has_time_bounds == IsSome(l.ts_bound_start) \/ IsSome(l.ts_bound_end)
        start == Unwrap(l.timestamp_start)
        end == Unwrap(l.timestamp_end)
        adjusted_end ==
            IF start = end THEN add_days_to_date(end, 1)
            ELSE IF has_time_bounds THEN add_days_to_date(end, 1)
            ELSE Ok(end)
        end7 == add_days_to_date(start, 7)
        start7 == add_days_to_date(end, 7)
    IN  IF IsSome(l.timestamp_start) /\ IsSome(l.timestamp_end)
        THEN IF adjusted_end.ok
             THEN Ok(Some(DateRange(start, Unwrap(adjusted_end.v))))
             ELSE Err(adjusted_end.err)
        ELSE IF IsSome(l.timestamp_start)
        THEN IF end7.ok
             THEN Ok(Some(DateRange(start, Unwrap(end7.v))))
             ELSE Err(end7.err)
        ELSE IF IsSome(l.timestamp_end)
        THEN IF start7.ok
             THEN Ok(Some(DateRange(Unwrap(start7.v), end)))
             ELSE Err(start7.err)
        ELSE Ok(None)

\* The match on (timestamp_start, timestamp_end): Result<Option<DateRange>>.
build_timestamp_range(l) ==
    LET has_time_bounds == IsSome(l.ts_bound_start) \/ IsSome(l.ts_bound_end)
        start == Unwrap(l.timestamp_start)
        end == Unwrap(l.timestamp_end)
        adjusted_end ==
            IF start = end THEN add_days_to_date(end, 1)
            ELSE IF has_time_bounds THEN add_days_to_date(end, 1)
            ELSE Ok(end)
        end7 == add_days_to_date(start, 7)
        start7 == add_days_to_date(end, -7)
    IN  IF IsSome(l.timestamp_start) /\ IsSome(l.timestamp_end)
        THEN IF adjusted_end.ok
             THEN Ok(Some(DateRange(start, Unwrap(adjusted_end.v))))
             ELSE Err(adjusted_end.err)
        ELSE IF IsSome(l.timestamp_start)
        THEN IF end7.ok
             THEN Ok(Some(DateRange(start, Unwrap(end7.v))))
             ELSE Err(end7.err)
        ELSE IF IsSome(l.timestamp_end)
        THEN IF start7.ok
             THEN Ok(Some(DateRange(Unwrap(start7.v), end)))
             ELSE Err(start7.err)
        ELSE Ok(None)

\* The match on (ts_bound_start, ts_bound_end): Option<TimestampBounds>.
build_timestamp_bounds(l) ==
    IF IsSome(l.ts_bound_start) /\ IsSome(l.ts_bound_end)
    THEN Some(TimestampBounds(l.ts_bound_start, l.ts_bound_start_op,
                              l.ts_bound_end, l.ts_bound_end_op))
    ELSE IF IsSome(l.ts_bound_start)
    THEN Some(TimestampBounds(l.ts_bound_start, l.ts_bound_start_op, None, None))
    ELSE IF IsSome(l.ts_bound_end)
    THEN Some(TimestampBounds(None, None, l.ts_bound_end, l.ts_bound_end_op))
    ELSE None

\* parse_quals after its loop: the range, the bounds and the table name
\* make the QualFilters it returns; a date that add_days_to_date cannot
\* parse makes it return Err.
BuildFilters ==
    /\ pc = "quals"
    /\ qi > Len(quals)
    /\ LET table_name == detect_table_name(table_opts, columns)
           timestamp_range == build_timestamp_range(loc)
       IN  IF timestamp_range.ok
           THEN /\ filters' = Some(QualFilters(loc.product_type, loc.data_category,
                                               loc.price_type,
                                               Unwrap(timestamp_range.v),
                                               build_timestamp_bounds(loc),
                                               table_name))
                /\ pc' = "route"
                /\ UNCHANGED err
           ELSE /\ pc' = "error"
                /\ err' = <<"Failed to parse quals", timestamp_range.err>>
                /\ UNCHANGED filters
    /\ UNCHANGED <<quals, table_opts, columns, qi, loc, plans, all_rows, filtered_rows, requests,
                 fetch_vars, oauth_vars, buffer_vars, host_vars>>

\* begin_scan with clear_rows moved up, to where the plans are in hand.
RouteQuery_clearing_rows ==
    /\ pc = "route"
    /\ LET routed == route_query(Unwrap(filters), api_base_url)
       IN  IF routed.ok
           THEN /\ plans' = Unwrap(routed.v)
                /\ token' = headers
                /\ pc' = "fetch"
                /\ renewable_rows' = <<>>
                /\ price_rows' = <<>>
                /\ redispatch_rows' = <<>>
                /\ grid_status_rows' = <<>>
                /\ renewable_row_position' = 0
                /\ price_row_position' = 0
                /\ redispatch_row_position' = 0
                /\ grid_status_row_position' = 0
                /\ UNCHANGED <<err, current_table>>
           ELSE /\ pc' = "error"
                /\ err' = <<"Failed to route query", routed.err>>
                /\ UNCHANGED <<plans, token, buffer_vars>>
    /\ UNCHANGED <<quals, table_opts, columns, qi, loc, filters, all_rows, filtered_rows, requests,
                 plan_idx, step, response, gets, oauth_vars, host_vars>>

\* begin_scan steps 2 and 3: route_query; an error ends the scan.  With
\* the plans in hand the local token is read from the authorization header
\* (init has set the manager and the header, so step 3 cannot fail).
RouteQuery ==
    /\ pc = "route"
    /\ LET routed == route_query(Unwrap(filters), api_base_url)
       IN  IF routed.ok
           THEN /\ plans' = Unwrap(routed.v)
                /\ token' = headers
                /\ pc' = "fetch"
                /\ UNCHANGED err
           ELSE /\ pc' = "error"
                /\ err' = <<"Failed to route query", routed.err>>
                /\ UNCHANGED <<plans, token>>
    /\ UNCHANGED <<quals, table_opts, columns, qi, loc, filters, all_rows, filtered_rows, requests,
                 plan_idx, step, response, gets, oauth_vars, buffer_vars, host_vars>>

\* Rows parsed from the responses of the plans (begin_scan step 4); each
\* row carries its canonical timestamp text.
Row(ts) == [timestamp_utc |-> ts]

\* The rows begin_scan has collected for `table` when it scans
\* table_name: parse_endpoint_response extends the vector of the scanned
\* table only, the other three stay empty.
rows_of(table, table_name, rows) == IF table = table_name THEN rows ELSE <<>>

\* begin_scan step 5 and 6: filter the four vectors, then clear_rows and
\* store them with the table name; the host reads the scan from its start.
FilterRows ==
    /\ pc = "filter"
    /\ LET table_name == Unwrap(filters).table_name
           bounds == Unwrap(filters).timestamp_bounds
       IN  /\ filtered_rows' = filter_rows(all_rows, bounds)
           /\ renewable_rows' =
                  filter_rows(rows_of("renewable_energy_timeseries", table_name, all_rows),
                              bounds)
           /\ price_rows' =
                  filter_rows(rows_of("electricity_market_prices", table_name, all_rows),
                              bounds)
           /\ redispatch_rows' =
                  filter_rows(rows_of("redispatch_events", table_name, all_rows), bounds)
           /\ grid_status_rows' =
                  filter_rows(rows_of("grid_status_timeseries", table_name, all_rows),
                              bounds)
           /\ current_table' = table_name
    /\ renewable_row_position' = 0
    /\ price_row_position' = 0
    /\ redispatch_row_position' = 0
    /\ grid_status_row_position' = 0
    /\ last_call' = "begin_scan"
    /\ emitted' = <<>>
    /\ pc' = "done"
    /\ UNCHANGED <<quals, table_opts, columns, qi, loc, filters, plans, err, all_rows, requests,
                 fetch_vars, oauth_vars>>

\* ------------------------------------------------ oauth2.rs: the manager
\* CachedToken::is_expired: 5-minute buffer before the expiry.
REFRESH_BUFFER_SECONDS == 300

CachedToken(access_token, expires_at) ==
    [access_token |-> access_token, expires_at |-> expires_at]

\* CachedToken::is_expired at the clock reading `clock`.  (saturating_sub
\* differs from the subtraction only within 300 of i64::MIN.)
is_expired(cached, clock) == clock >= cached.expires_at - REFRESH_BUFFER_SECONDS

\* OAuth2Manager::is_near_expiry
is_near_expiry(cache, clock) ==
    IF IsSome(cache) THEN is_expired(Unwrap(cache), clock) ELSE TRUE

\* What the identity provider answers to the POST of fetch_token: a token
\* with its lifetime, or a failure (no connection, a status other than
\* 200, a body that is not a token response).
TokenReply(ok, expires_in) == [ok |-> ok, expires_in |-> expires_in]

\* OAuth2Manager::fetch_token, given the provider's reply; access_token is
\* the text of the new token.
fetch_token(reply, clock, access_token) ==
    IF ~reply.ok THEN Err("FetchFailed")
    ELSE IF reply.expires_in = 0 THEN Err("InvalidTokenResponse")
    ELSE Ok(CachedToken(access_token, clock + reply.expires_in))

\* get_token that trusts any cached token, expired or not.
get_token_ignoring_expiry(cache, clock, reply, access_token) ==
    LET new_token == fetch_token(reply, clock, access_token)
    IN  IF IsSome(cache)
        THEN [result |-> Ok(Unwrap(cache).access_token), cache |-> cache,
              requested |-> FALSE]
        ELSE IF new_token.ok
        THEN [result |-> Ok(Unwrap(new_token.v).access_token),
              cache |-> Some(Unwrap(new_token.v)), requested |-> TRUE]
        ELSE [result |-> Err(new_token.err), cache |-> cache, requested |-> TRUE]

\* OAuth2Manager::get_token: what it returns, the cache it leaves, and
\* whether it has sent a token request.
get_token(cache, clock, reply, access_token) ==
    LET new_token == fetch_token(reply, clock, access_token)
    IN  IF IsSome(cache) /\ ~is_expired(Unwrap(cache), clock)
        THEN [result |-> Ok(Unwrap(cache).access_token), cache |-> cache,
              requested |-> FALSE]
        ELSE IF new_token.ok
        THEN [result |-> Ok(Unwrap(new_token.v).access_token),
              cache |-> Some(Unwrap(new_token.v)), requested |-> TRUE]
        ELSE [result |-> Err(new_token.err), cache |-> cache, requested |-> TRUE]

\* ------------------------------------------ lib.rs: fetching and parsing
\* A response body: empty, or text that the table's parser accepts (it
\* yields one row per timestamp of `stamps`) or whose header it rejects.
Body(valid, stamps) == [empty |-> FALSE, valid |-> valid, stamps |-> stamps]
EmptyBody == [empty |-> TRUE, valid |-> FALSE, stamps |-> <<>>]

\* What http::get returns: a response, or an error of the transport.
HttpResponse(status_code, body) ==
    [failed |-> FALSE, status_code |-> status_code, body |-> body]
HttpFailure == [failed |-> TRUE, status_code |-> 0, body |-> EmptyBody]

\* fetch_endpoint with a 404 treated like every other error status.
fetch_endpoint_strict_404(http) ==
    IF http.failed THEN Err("NetworkError")
    ELSE IF http.status_code = 200
    THEN IF http.body.empty THEN Ok(EmptyBody) ELSE Ok(http.body)
    ELSE IF http.status_code = 401 THEN Err("TokenExpired")
    ELSE IF http.status_code = 429 THEN Err("RateLimited")
    ELSE Err("HttpError")

\* fetch_endpoint, given what http::get returned.
fetch_endpoint(http) ==
    IF http.failed THEN Err("NetworkError")
    ELSE IF http.status_code = 200
    THEN IF http.body.empty THEN Ok(EmptyBody) ELSE Ok(http.body)
    ELSE IF http.status_code = 401 THEN Err("TokenExpired")
    ELSE IF http.status_code = 404 THEN Ok(EmptyBody)
    ELSE IF http.status_code = 429 THEN Err("RateLimited")
    ELSE Err("HttpError")

\* transformations.rs: normalize_product_type
normalize_product_type(api_product) ==
    IF api_product = "Solar" THEN Ok("solar")
    ELSE IF api_product = "Wind" THEN Ok("wind_onshore")
    ELSE IF api_product = "Windonshore" THEN Ok("wind_onshore")
    ELSE IF api_product = "Windoffshore" THEN Ok("wind_offshore")
    ELSE Err("UnknownProduct")

\* transformations.rs: extract_data_category.  The endpoint is tested for
\* the substrings onlinehochrechnung and hochrechnung, in that order.
extract_data_category(endpoint) ==
    IF endpoint = "onlinehochrechnung" THEN Ok("online_actual")
    ELSE IF endpoint = "hochrechnung" THEN Ok("extrapolation")
    ELSE Err("UnknownDataCategory")

\* transformations.rs: build_source_endpoint
build_source_endpoint(endpoint, product, date_from, date_to) ==
    [endpoint |-> endpoint, product |-> product,
     date_from |-> date_from, date_to |-> date_to]

\* types.rs: RenewableRow (the fields the scan reads or derives from the
\* plan)
RenewableRow(timestamp_utc, product_type, data_category, source_endpoint) ==
    [timestamp_utc |-> timestamp_utc, product_type |-> product_type,
     data_category |-> data_category, source_endpoint |-> source_endpoint]

\* csv_parser.rs: parse_renewable_csv
parse_renewable_csv(csv_content, endpoint, product, date_from, date_to) ==
    LET product_type == normalize_product_type(product)
        data_category == extract_data_category(endpoint)
        source_endpoint == build_source_endpoint(endpoint, Some(product),
                                                 date_from, date_to)
    IN  IF ~csv_content.valid THEN Err("CsvFormat")
        ELSE IF ~product_type.ok THEN Err(product_type.err)
        ELSE IF ~data_category.ok THEN Err(data_category.err)
        ELSE Ok([k \in 1..Len(csv_content.stamps) |->
                   RenewableRow(csv_content.stamps[k], Unwrap(product_type.v),
                                Unwrap(data_category.v), source_endpoint)])

\* types.rs, types_grid.rs: PriceRow, RedispatchRow, GridStatusRow
TableRow(timestamp_utc, source_endpoint) ==
    [timestamp_utc |-> timestamp_utc, source_endpoint |-> source_endpoint]

\* csv_parser.rs, grid_parsers.rs: the parsers of the other three tables
\* (parse_price_csv, parse_negative_price_flags_csv, parse_monthly_price_csv,
\* parse_annual_price_response, parse_redispatch_csv,
\* parse_trafficlight_json)
parse_table_rows(content, endpoint, date_from, date_to) ==
    IF ~content.valid THEN Err("CsvFormat")
    ELSE Ok([k \in 1..Len(content.stamps) |->
               TableRow(content.stamps[k],
                        build_source_endpoint(endpoint, None, date_from, date_to))])

\* parse_endpoint_response that reads a product from every plan, whatever
\* the table.
parse_endpoint_response_product_everywhere(table_name, response_body, plan) ==
    IF table_name \in {"renewable_energy_timeseries", "electricity_market_prices",
                       "redispatch_events", "grid_status_timeseries"}
    THEN IF IsNone(plan.product)
         THEN Err(<<"Missing product in QueryPlan">>)
         ELSE LET rows == parse_renewable_csv(response_body, plan.endpoint,
                                              Unwrap(plan.product),
                                              plan.date_from, plan.date_to)
              IN  IF rows.ok THEN rows
                  ELSE Err(<<"Failed to parse renewable CSV", rows.err>>)
    ELSE Err(<<"Unknown table">>)

\* parse_endpoint_response: the rows to extend the table's vector with, or
\* the error message (its prefix, then the parser's error).
parse_endpoint_response(table_name, response_body, plan) ==
    IF table_name = "renewable_energy_timeseries"
    THEN IF IsNone(plan.product)
         THEN Err(<<"Missing product in QueryPlan">>)
         ELSE LET rows == parse_renewable_csv(response_body, plan.endpoint,
                                              Unwrap(plan.product),
                                              plan.date_from, plan.date_to)
              IN  IF rows.ok THEN rows
                  ELSE Err(<<"Failed to parse renewable CSV", rows.err>>)
    ELSE IF table_name = "electricity_market_prices"
    THEN LET rows == parse_table_rows(response_body, plan.endpoint,
                                      plan.date_from, plan.date_to)
         IN  IF rows.ok THEN rows
             ELSE Err(<<"Failed to parse price response", rows.err>>)
    ELSE IF table_name = "redispatch_events"
    THEN LET rows == parse_table_rows(response_body, plan.endpoint,
                                      plan.date_from, plan.date_to)
         IN  IF rows.ok THEN rows
             ELSE Err(<<"Failed to parse redispatch CSV", rows.err>>)
    ELSE IF table_name = "grid_status_timeseries"
    THEN LET rows == parse_table_rows(response_body, plan.endpoint,
                                      plan.date_from, plan.date_to)
         IN  IF rows.ok THEN rows
             ELSE Err(<<"Failed to parse TrafficLight JSON", rows.err>>)
    ELSE Err(<<"Unknown table">>)

\* timestamp_to_micros: the row's timestamp parsed as DateTime<Utc>.
timestamp_to_micros(timestamp_str) ==
    IF IsSome(parse_from_rfc3339(timestamp_str))
    THEN Ok(Unwrap(parse_from_rfc3339(timestamp_str)))
    ELSE Err("Failed to parse ISO 8601 timestamp")

\* renewable_row_to_cells / price_row_to_cells / redispatch_row_to_cells /
\* grid_status_row_to_cells: the timestamp is converted when the column is
\* asked for; a failed conversion is the only error.  The cell of the
\* timestamp holds the instant, the other cells the fields as they are.
row_to_cells(row, cols) ==
    LET asked == \E i \in 1..Len(cols) : cols[i] = "timestamp_utc"
        micros == timestamp_to_micros(row.timestamp_utc)
    IN  IF asked /\ ~micros.ok
        THEN Err("timestamp_utc")
        ELSE Ok([row EXCEPT !.timestamp_utc =
                     IF asked THEN Some(Unwrap(micros.v)) ELSE None])

\* ------------------------------------------------------------- inputs
FirstDay == days_from_civil([y |-> 2024, m |-> 10, d |-> 30])
Days == FirstDay..(FirstDay + MaxDayOff)
Ops == {"=", ">", ">=", "<", "<="}
LowerUpperEq == {">=", "<", "="}

\* All sequences over S of length 0..n.
RECURSIVE SeqsUpTo(_, _)
SeqsUpTo(S, n) ==
    IF n = 0 THEN {<<>>}
    ELSE LET shorter == SeqsUpTo(S, n - 1)
         IN  shorter \cup {Append(q, x) : q \in shorter, x \in S}

\* Instants of timestamptz qualifiers: the last tick of every day, and
\* midnight of the first.
TzInstants ==
    {d * TicksPerDay + (TicksPerDay - 1) : d \in Days} \cup {FirstDay * TicksPerDay}

\* Qualifiers on timestamp_utc: timestamptz cells (one beyond chrono's
\* range), RFC 3339 strings, date-only strings (one with month 13),
\* timestamps without a zone, an unsupported operator, another cell type.
TsQuals ==
    {Qual("timestamp_utc", o, TzCell(m)) : o \in Ops, m \in TzInstants}
    \cup {Qual("timestamp_utc", ">=", TzCell((ChronoMaxDay + 1) * TicksPerDay))}
    \cup {Qual("timestamp_utc", o, StrCell(Rfc3339Str(civil_from_days(d), TicksPerDay - 1, 0))) :
            o \in LowerUpperEq, d \in Days}
    \cup {Qual("timestamp_utc", o, StrCell(DateStr(civil_from_days(d)))) :
            o \in LowerUpperEq, d \in Days}
    \cup {Qual("timestamp_utc", o, StrCell(NaiveStr(civil_from_days(d), TicksPerDay - 1))) :
            o \in {">=", "<"}, d \in Days}
    \cup {Qual("timestamp_utc", "=",
               StrCell(NaiveStr(civil_from_days(FirstDay), TicksPerDay - 1)))}
    \cup {Qual("timestamp_utc", o, StrCell(DateStr([y |-> 2024, m |-> 13, d |-> 1]))) :
            o \in {">=", "<"}}
    \cup {Qual("timestamp_utc", "<>", TzCell(FirstDay * TicksPerDay)),
          Qual("timestamp_utc", ">=", OtherCell)}

CatQuals ==
    {Qual("product_type", "=", StrCell(TextStr(p))) :
        p \in {"solar", "wind_onshore", "wind_offshore", "hydro"}}
    \cup {Qual("data_category", "=", StrCell(TextStr(c))) :
            c \in {"forecast", "extrapolation", "online_actual", "history"}}
    \cup {Qual("price_type", "=", StrCell(TextStr(p))) :
            p \in {"spot_market", "market_premium", "annual_market_value",
                   "negative_flag", "futures"}}
    \cup {Qual("product_type", "<>", StrCell(TextStr("solar"))),
          Qual("product_type", "=", OtherCell),
          Qual("interval_minutes", "=", OtherCell)}

TableNames ==
    {"renewable_energy_timeseries", "electricity_market_prices",
     "redispatch_events", "grid_status_timeseries"}

\* Lifetimes the identity provider gives a token: as long as the refresh
\* buffer (due for refresh at once), and one second longer.
TokenLifetimes == {REFRESH_BUFFER_SECONDS, REFRESH_BUFFER_SECONDS + 1}

\* The instance as init leaves it: NtpFdw::default() with the manager
\* created, the first token fetched (the one POST so far) and written to
\* the authorization header.
InitInstance(expires_in) ==
    /\ now = 0
    /\ token_requests = 1
    /\ cached_token = Some(CachedToken(1, expires_in))
    /\ headers = 1
    /\ renewable_rows = <<>>
    /\ price_rows = <<>>
    /\ redispatch_rows = <<>>
    /\ grid_status_rows = <<>>
    /\ renewable_row_position = 0
    /\ price_row_position = 0
    /\ redispatch_row_position = 0
    /\ grid_status_row_position = 0
    /\ current_table = ""
    /\ last_call = "init"
    /\ emitted = <<>>

\* The locals of begin_scan at its entry.
InitLocals ==
    /\ qi = 1
    /\ loc = InitLoc
    /\ filters = None
    /\ plans = <<>>
    /\ err = <<>>
    /\ all_rows = <<>>
    /\ filtered_rows = <<>>
    /\ requests = <<>>
    /\ plan_idx = 1
    /\ step = "start"
    /\ token = 0
    /\ response = None
    /\ gets = 0

\* The first begin_scan after init, at its entry.
InitScan ==
    /\ pc = "quals"
    /\ InitLocals
    /\ InitInstance(REFRESH_BUFFER_SECONDS + MaxClock + 1)

\* Scans of the renewable table with any timestamp qualifiers.
Init ==
    /\ quals \in SeqsUpTo(TsQuals \cup {Qual("product_type", "=", StrCell(TextStr("solar"))),
                                        Qual("interval_minutes", "=", OtherCell)},
                          MaxQuals)
    /\ table_opts = Some("renewable_energy_timeseries")
    /\ columns = <<>>
    /\ InitScan

\* Scans of every table, with categorical qualifiers and a few timestamp
\* qualifiers (valid, a day apart in both orders, and not a date).
PlanQuals ==
    CatQuals
    \cup {Qual("timestamp_utc", o, StrCell(NaiveStr(civil_from_days(d), TicksPerDay - 1))) :
            o \in {">=", "<"}, d \in {FirstDay, FirstDay + 1}}
    \cup {Qual("timestamp_utc", ">=", TzCell(FirstDay * TicksPerDay)),
          Qual("timestamp_utc", ">=", TzCell((FirstDay + 1) * TicksPerDay)),
          Qual("timestamp_utc", "<", TzCell((FirstDay + 1) * TicksPerDay)),
          Qual("timestamp_utc", ">=", StrCell(DateStr([y |-> 2024, m |-> 13, d |-> 1]))),
          Qual("timestamp_utc", "<", StrCell(DateStr([y |-> 2024, m |-> 13, d |-> 1])))}

InitPlan ==
    /\ quals \in SeqsUpTo(PlanQuals, MaxQuals)
    /\ \/ /\ table_opts \in {Some(t) : t \in TableNames \cup {"weather"}}
          /\ columns = <<>>
       \/ /\ table_opts = None
          /\ columns \in {<<>>, <<"timestamp_utc", "price_type">>,
                          <<"grid_status">>, <<"reason", "product_type">>}
    /\ InitScan

\* Scans whose rows are fetched and filtered: timestamptz bounds just
\* before the midnight after FirstDay under every operator and at that
\* midnight as an upper bound or an equality, a timestamp string without
\* a zone, a category that has no endpoint and a timestamptz outside the
\* calendar's range (scans that end in an error), and rows on both sides
\* of the bounds (one of them with a timestamp that is not RFC 3339).
FilterQuals ==
    {Qual("timestamp_utc", o, TzCell((FirstDay + 1) * TicksPerDay - 1)) : o \in Ops}
    \cup {Qual("timestamp_utc", o, TzCell((FirstDay + 1) * TicksPerDay)) :
            o \in {"<", "<=", "="}}
    \cup {Qual("timestamp_utc", ">=",
               StrCell(NaiveStr(civil_from_days(FirstDay), TicksPerDay - 1))),
          Qual("product_type", "=", StrCell(TextStr("solar"))),
          Qual("interval_minutes", "=", OtherCell),
          Qual("data_category", "=", StrCell(TextStr("history"))),
          Qual("timestamp_utc", ">=", TzCell((ChronoMaxDay + 1) * TicksPerDay))}

RowStamps ==
    {Rfc3339Str(civil_from_days(FirstDay), t, 0) : t \in 0..(TicksPerDay - 1)}
    \cup {Rfc3339Str(civil_from_days(FirstDay + 1), 0, 0),
          NaiveStr(civil_from_days(FirstDay), 0)}

RowBatches == SeqsUpTo({Row(ts) : ts \in RowStamps}, MaxRows)

InitFilter ==
    /\ quals \in SeqsUpTo(FilterQuals, MaxQuals)
    /\ table_opts = Some("renewable_energy_timeseries")
    /\ columns = <<>>
    /\ InitScan

\* The fetch loop entered as soon as parse_quals has returned, before
\* route_query has filled the plan list.
FetchRows_before_routing ==
    /\ pc \in {"route", "fetch"}
    /\ requests' = [k \in 1..Len(plans) |-> plans[k].api_url]
    /\ all_rows' \in (IF plans = <<>> THEN {<<>>} ELSE RowBatches)
    /\ pc' = "filter"
    /\ UNCHANGED <<quals, table_opts, columns, qi, loc, filters, plans, err, filtered_rows,
                 fetch_vars, oauth_vars, buffer_vars, host_vars>>

\* begin_scan step 4: for each plan in order its api_url is requested and
\* the response parsed into rows; without a plan there is nothing to
\* fetch.
FetchRows ==
    /\ pc = "fetch"
    /\ requests' = [k \in 1..Len(plans) |-> plans[k].api_url]
    /\ all_rows' \in (IF plans = <<>> THEN {<<>>} ELSE RowBatches)
    /\ pc' = "filter"
    /\ UNCHANGED <<quals, table_opts, columns, qi, loc, filters, plans, err, filtered_rows,
                 fetch_vars, oauth_vars, buffer_vars, host_vars>>

\* ------------------------------------- fetch_with_oauth_retry, in steps
\* Replies of the identity provider.
TokenReplies ==
    {TokenReply(TRUE, e) : e \in TokenLifetimes \cup {0}} \cup {TokenReply(FALSE, 0)}

\* Timestamps of response rows: the first and the last instant of FirstDay.
ScanStamps ==
    {Rfc3339Str(civil_from_days(FirstDay), 0, 0),
     Rfc3339Str(civil_from_days(FirstDay), TicksPerDay - 1, 0)}

\* Answers of the API to one GET, with bodies of at most `room` rows: 200
\* with an empty body, with rows, or with text the parser rejects; 401,
\* 404, 429, 500; no answer at all.
Responses(room) ==
    {HttpResponse(200, b) :
        b \in {Body(TRUE, st) : st \in SeqsUpTo(ScanStamps, room)}
              \cup {Body(FALSE, <<>>), EmptyBody}}
    \cup {HttpResponse(status, Body(FALSE, <<>>)) : status \in {401, 404, 429, 500}}
    \cup {HttpFailure}

InFetchLoop == pc = "fetch" /\ plan_idx <= Len(plans)

\* The host's clock advances.  It is read by is_near_expiry and get_token,
\* so only the time that has passed up to those reads matters.
Tick ==
    /\ InFetchLoop
    /\ step \in {"start", "retry"}
    /\ now < MaxClock
    /\ now' = now + 1
    /\ UNCHANGED <<scan_vars, fetch_vars, headers, cached_token, token_requests,
                   buffer_vars, host_vars>>

\* fetch_with_oauth_retry is called for the plan; proactive part: a token
\* near its expiry is replaced before the request, and a failure to
\* replace it ends begin_scan.
ProactiveRefresh ==
    /\ InFetchLoop
    /\ step = "start"
    /\ requests' = Append(requests, plans[plan_idx].api_url)
    /\ gets' = 0
    /\ IF is_near_expiry(cached_token, now)
       THEN \E reply \in TokenReplies :
              LET got == get_token(cached_token, now, reply, token_requests + 1)
              IN  /\ cached_token' = got.cache
                  /\ token_requests' = IF got.requested THEN token_requests + 1
                                       ELSE token_requests
                  /\ IF got.result.ok
                     THEN /\ token' = Unwrap(got.result.v)
                          /\ step' = "get"
                          /\ UNCHANGED <<pc, err>>
                     ELSE /\ pc' = "error"
                          /\ err' = <<"Failed to fetch endpoint",
                                      "Failed to refresh token before API call",
                                      got.result.err>>
                          /\ UNCHANGED <<token, step>>
       ELSE /\ step' = "get"
            /\ UNCHANGED <<cached_token, token_requests, token, pc, err>>
    /\ UNCHANGED <<quals, table_opts, columns, qi, loc, filters, plans, all_rows,
                   filtered_rows, plan_idx, response, headers, now, buffer_vars,
                   host_vars>>

\* The loop body of begin_scan after fetch_with_oauth_retry has returned
\* Ok(response_body): the header takes the token, an empty body is skipped,
\* any other is parsed (an error ends begin_scan) and its rows are appended.
AfterFetch(response_body) ==
    /\ headers' = token
    /\ LET parsed == parse_endpoint_response(Unwrap(filters).table_name,
                                             response_body, plans[plan_idx])
       IN  IF response_body.empty
           THEN /\ plan_idx' = plan_idx + 1
                /\ step' = "start"
                /\ UNCHANGED <<all_rows, pc, err>>
           ELSE IF parsed.ok
           THEN /\ all_rows' = all_rows \o Unwrap(parsed.v)
                /\ plan_idx' = plan_idx + 1
                /\ step' = "start"
                /\ UNCHANGED <<pc, err>>
           ELSE /\ pc' = "error"
                /\ err' = parsed.err
                /\ UNCHANGED <<all_rows, plan_idx, step>>

\* The second attempt with a retry loop of three attempts: a 401 to the
\* second request sends it back to the token refresh.
FetchEndpointRetry_again_on_401 ==
    /\ InFetchLoop
    /\ step = "retry_get"
    /\ gets' = gets + 1
    /\ \E http \in Responses(MaxRows - Len(all_rows)) :
         LET fetched == fetch_endpoint(http)
         IN  /\ response' = Some(http)
             /\ IF fetched.ok
                THEN AfterFetch(Unwrap(fetched.v))
                ELSE IF fetched.err = "TokenExpired" /\ gets < 2
                THEN /\ step' = "retry"
                     /\ UNCHANGED <<all_rows, plan_idx, pc, err, headers>>
                ELSE /\ pc' = "error"
                     /\ err' = <<"Failed to fetch endpoint",
                                 "Failed to fetch endpoint after retry", fetched.err>>
                     /\ UNCHANGED <<all_rows, plan_idx, step, headers>>
    /\ UNCHANGED <<quals, table_opts, columns, qi, loc, filters, plans, filtered_rows,
                   requests, token, cached_token, now, token_requests, buffer_vars,
                   host_vars>>

\* fetch_with_oauth_retry, first attempt: fetch_endpoint with the token.
\* Ok(body) returns to the loop, a 401 goes on to the reactive part, any
\* other error ends begin_scan.
FetchEndpoint ==
    /\ InFetchLoop
    /\ step = "get"
    /\ gets' = gets + 1
    /\ \E http \in Responses(MaxRows - Len(all_rows)) :
         LET fetched == fetch_endpoint(http)
         IN  /\ response' = Some(http)
             /\ IF fetched.ok
                THEN AfterFetch(Unwrap(fetched.v))
                ELSE IF fetched.err = "TokenExpired"
                THEN /\ step' = "retry"
                     /\ UNCHANGED <<all_rows, plan_idx, pc, err, headers>>
                ELSE /\ pc' = "error"
                     /\ err' = <<"Failed to fetch endpoint", fetched.err>>
                     /\ UNCHANGED <<all_rows, plan_idx, step, headers>>
    /\ UNCHANGED <<quals, table_opts, columns, qi, loc, filters, plans, filtered_rows,
                   requests, token, cached_token, now, token_requests, buffer_vars,
                   host_vars>>

\* Reactive part, after a 401: clear_cache, then get_token (which must ask
\* for a token, the cache being empty); a failure ends begin_scan.
RefreshAfter401 ==
    /\ InFetchLoop
    /\ step = "retry"
    /\ \E reply \in TokenReplies :
         LET got == get_token(None, now, reply, token_requests + 1)
         IN  /\ cached_token' = got.cache
             /\ token_requests' = IF got.requested THEN token_requests + 1
                                  ELSE token_requests
             /\ IF got.result.ok
                THEN /\ token' = Unwrap(got.result.v)
                     /\ step' = "retry_get"
                     /\ UNCHANGED <<pc, err>>
                ELSE /\ pc' = "error"
                     /\ err' = <<"Failed to fetch endpoint",
                                 "Failed to refresh OAuth2 token after 401",
                                 got.result.err>>
                     /\ UNCHANGED <<token, step>>
    /\ UNCHANGED <<quals, table_opts, columns, qi, loc, filters, plans, all_rows,
                   filtered_rows, requests, plan_idx, response, gets, headers, now,
                   buffer_vars, host_vars>>

\* Reactive part, second attempt: fetch_endpoint with the fresh token; its
\* error, whatever it is, ends begin_scan.
FetchEndpointRetry ==
    /\ InFetchLoop
    /\ step = "retry_get"
    /\ gets' = gets + 1
    /\ \E http \in Responses(MaxRows - Len(all_rows)) :
         LET fetched == fetch_endpoint(http)
         IN  /\ response' = Some(http)
             /\ IF fetched.ok
                THEN AfterFetch(Unwrap(fetched.v))
                ELSE /\ pc' = "error"
                     /\ err' = <<"Failed to fetch endpoint",
                                 "Failed to fetch endpoint after retry", fetched.err>>
                     /\ UNCHANGED <<all_rows, plan_idx, step, headers>>
    /\ UNCHANGED <<quals, table_opts, columns, qi, loc, filters, plans, filtered_rows,
                   requests, token, cached_token, now, token_requests, buffer_vars,
                   host_vars>>

\* The loop over the plans is through: begin_scan goes on to the filter.
FetchLoopEnd ==
    /\ pc = "fetch"
    /\ plan_idx > Len(plans)
    /\ pc' = "filter"
    /\ UNCHANGED <<quals, table_opts, columns, qi, loc, filters, plans, err, all_rows,
                   filtered_rows, requests, fetch_vars, oauth_vars, buffer_vars,
                   host_vars>>

\* ------------------------------------------------ the handlers of a scan
\* What the host passes to begin_scan: qualifiers, the table option and
\* the projected columns.
ScanContext(qs, table) == [quals |-> qs, table_opts |-> Some(table),
                           columns |-> <<"timestamp_utc">>]

\* Scans of the renewable table with one category (two plans, the second
\* scan with a lower timestamp bound) and with one product (three plans,
\* prognose first), of the three single-endpoint tables (one with a
\* qualifier that is not pushed down, one with a date as lower bound), and
\* two scans that fail before any request (a timestamptz beyond the
\* calendar, a category without endpoint).
ScanContexts ==
    {ScanContext(<<Qual("data_category", "=", StrCell(TextStr("extrapolation")))>>,
                 "renewable_energy_timeseries"),
     ScanContext(<<Qual("data_category", "=", StrCell(TextStr("extrapolation"))),
                   Qual("timestamp_utc", ">=",
                        TzCell(FirstDay * TicksPerDay + TicksPerDay - 1))>>,
                 "renewable_energy_timeseries"),
     ScanContext(<<Qual("product_type", "=", StrCell(TextStr("solar")))>>,
                 "renewable_energy_timeseries"),
     ScanContext(<<Qual("price_type", "=", StrCell(TextStr("spot_market")))>>,
                 "electricity_market_prices"),
     ScanContext(<<Qual("interval_minutes", "=", OtherCell)>>, "redispatch_events"),
     ScanContext(<<Qual("timestamp_utc", ">=",
                        StrCell(DateStr(civil_from_days(FirstDay))))>>,
                 "grid_status_timeseries"),
     ScanContext(<<Qual("timestamp_utc", ">=",
                        TzCell((ChronoMaxDay + 1) * TicksPerDay))>>,
                 "renewable_energy_timeseries"),
     ScanContext(<<Qual("data_category", "=", StrCell(TextStr("history")))>>,
                 "renewable_energy_timeseries")}

\* rows.get(position) of iter_scan
get(rows, position) == IF position < Len(rows) THEN Some(rows[position + 1]) ELSE None

\* The arm of iter_scan without the increment of the position.
iter_arm_not_advancing(rows, position, position1) ==
    LET row_data == get(rows, position)
        cells == row_to_cells(Unwrap(row_data), columns)
    IN  IF IsNone(row_data)
        THEN /\ last_call' = "iter_scan: none"
             /\ position1 = position
             /\ UNCHANGED emitted
        ELSE /\ position1 = position
             /\ IF cells.ok
                THEN /\ last_call' = "iter_scan: row"
                     /\ emitted' = Append(emitted, Unwrap(cells.v))
                ELSE /\ last_call' = "iter_scan: error"
                     /\ UNCHANGED emitted

\* One arm of iter_scan: the row at the position, if there is one, is
\* counted as read and then converted; the converted row is pushed.
iter_arm(rows, position, position1) ==
    LET row_data == get(rows, position)
        cells == row_to_cells(Unwrap(row_data), columns)
    IN  IF IsNone(row_data)
        THEN /\ last_call' = "iter_scan: none"
             /\ position1 = position
             /\ UNCHANGED emitted
        ELSE /\ position1 = position + 1
             /\ IF cells.ok
                THEN /\ last_call' = "iter_scan: row"
                     /\ emitted' = Append(emitted, Unwrap(cells.v))
                ELSE /\ last_call' = "iter_scan: error"
                     /\ UNCHANGED emitted

\* iter_scan
IterScan ==
    /\ pc = "done"
    /\ IF current_table = "renewable_energy_timeseries"
       THEN /\ iter_arm(renewable_rows, renewable_row_position, renewable_row_position')
            /\ UNCHANGED <<price_row_position, redispatch_row_position,
                           grid_status_row_position>>
       ELSE IF current_table = "electricity_market_prices"
       THEN /\ iter_arm(price_rows, price_row_position, price_row_position')
            /\ UNCHANGED <<renewable_row_position, redispatch_row_position,
                           grid_status_row_position>>
       ELSE IF current_table = "redispatch_events"
       THEN /\ iter_arm(redispatch_rows, redispatch_row_position,
                        redispatch_row_position')
            /\ UNCHANGED <<renewable_row_position, price_row_position,
                           grid_status_row_position>>
       ELSE IF current_table = "grid_status_timeseries"
       THEN /\ iter_arm(grid_status_rows, grid_status_row_position,
                        grid_status_row_position')
            /\ UNCHANGED <<renewable_row_position, price_row_position,
                           redispatch_row_position>>
       ELSE /\ last_call' = "iter_scan: error"
            /\ UNCHANGED <<renewable_row_position, price_row_position,
                           redispatch_row_position, grid_status_row_position, emitted>>
    /\ UNCHANGED <<scan_vars, fetch_vars, oauth_vars, renewable_rows, price_rows,
                   redispatch_rows, grid_status_rows, current_table>>

\* re_scan that resets the position of the renewable buffer only.
ReScan_renewable_only ==
    /\ pc = "done"
    /\ renewable_row_position' = 0
    /\ last_call' = "re_scan"
    /\ emitted' = <<>>
    /\ UNCHANGED <<scan_vars, fetch_vars, oauth_vars, renewable_rows, price_rows,
                   redispatch_rows, grid_status_rows, price_row_position,
                   redispatch_row_position, grid_status_row_position,
                   current_table>>

\* re_scan: the four positions go back to 0; the host reads from the start.
ReScan ==
    /\ pc = "done"
    /\ renewable_row_position' = 0
    /\ price_row_position' = 0
    /\ redispatch_row_position' = 0
    /\ grid_status_row_position' = 0
    /\ last_call' = "re_scan"
    /\ emitted' = <<>>
    /\ UNCHANGED <<scan_vars, fetch_vars, oauth_vars, renewable_rows, price_rows,
                   redispatch_rows, grid_status_rows, current_table>>

\* end_scan: clear_rows.
EndScan ==
    /\ pc = "done"
    /\ pc' = "idle"
    /\ renewable_rows' = <<>>
    /\ price_rows' = <<>>
    /\ redispatch_rows' = <<>>
    /\ grid_status_rows' = <<>>
    /\ renewable_row_position' = 0
    /\ price_row_position' = 0
    /\ redispatch_row_position' = 0
    /\ grid_status_row_position' = 0
    /\ last_call' = "end_scan"
    /\ emitted' = <<>>
    /\ UNCHANGED <<quals, table_opts, columns, qi, loc, filters, plans, err, all_rows,
                   filtered_rows, requests, fetch_vars, oauth_vars, current_table>>

\* begin_scan is entered with one of the scan contexts, on the instance
\* as init has left it.
InitFresh ==
    /\ \E ctx \in ScanContexts :
         /\ quals = ctx.quals
         /\ table_opts = ctx.table_opts
         /\ columns = ctx.columns
    /\ pc = "quals"
    /\ InitLocals
    /\ \E expires_in \in TokenLifetimes : InitInstance(expires_in)

Next ==
    \/ QualCategorical
    \/ QualTimestamptz
    \/ QualTimestampString
    \/ QualIgnored
    \/ BuildFilters
    \/ RouteQuery

Spec == Init /\ [][Next]_vars

SpecPlan == InitPlan /\ [][Next]_vars

NextFilter ==
    \/ QualCategorical
    \/ QualTimestamptz
    \/ QualTimestampString
    \/ QualIgnored
    \/ BuildFilters
    \/ RouteQuery
    \/ FetchRows
    \/ FilterRows

SpecFilter == InitFilter /\ [][NextFilter]_vars

\* ------------------------------- begin_scan on an instance that holds rows
\* Scans that have come to their end before: one of the renewable table,
\* one of the price table, without timestamp qualifiers.
EarlierFilters ==
    {QualFilters(None, Some("extrapolation"), None, None, None,
                 "renewable_energy_timeseries"),
     QualFilters(None, None, Some("spot_market"), None, None,
                 "electricity_market_prices")}

\* The rows such a scan has stored: two rows of its first plan, the other
\* plans having been answered 404.
EarlierRows(earlier) ==
    LET routed == route_query(earlier, api_base_url)
        stamps == <<Rfc3339Str(civil_from_days(FirstDay), 0, 0),
                    Rfc3339Str(civil_from_days(FirstDay), TicksPerDay - 1, 0)>>
        parsed == parse_endpoint_response(earlier.table_name, Body(TRUE, stamps),
                                          Unwrap(routed.v)[1])
    IN  filter_rows(Unwrap(parsed.v), earlier.timestamp_bounds)

\* begin_scan is entered again: the instance holds the rows of an earlier
\* scan, of which the host has read the first; the token of init is still
\* the cached one.
InitRestart ==
    /\ \E ctx \in ScanContexts :
         /\ quals = ctx.quals
         /\ table_opts = ctx.table_opts
         /\ columns = ctx.columns
    /\ pc = "quals"
    /\ InitLocals
    /\ now = 0
    /\ token_requests = 1
    /\ cached_token = Some(CachedToken(1, REFRESH_BUFFER_SECONDS + 1))
    /\ headers = 1
    /\ \E earlier \in EarlierFilters :
         LET rows == EarlierRows(earlier)
             held(table) == rows_of(table, earlier.table_name, rows)
             read(table) == IF table = earlier.table_name THEN 1 ELSE 0
         IN  /\ renewable_rows = held("renewable_energy_timeseries")
             /\ price_rows = held("electricity_market_prices")
             /\ redispatch_rows = held("redispatch_events")
             /\ grid_status_rows = held("grid_status_timeseries")
             /\ renewable_row_position = read("renewable_energy_timeseries")
             /\ price_row_position = read("electricity_market_prices")
             /\ redispatch_row_position = read("redispatch_events")
             /\ grid_status_row_position = read("grid_status_timeseries")
             /\ current_table = earlier.table_name
             /\ last_call = "iter_scan: row"
             /\ emitted = <<Unwrap(row_to_cells(rows[1], <<"timestamp_utc">>).v)>>

\* begin_scan from its entry to its return.
NextRestart ==
    \/ QualCategorical
    \/ QualTimestamptz
    \/ QualTimestampString
    \/ QualIgnored
    \/ BuildFilters
    \/ RouteQuery
    \/ Tick
    \/ ProactiveRefresh
    \/ FetchEndpoint
    \/ RefreshAfter401
    \/ FetchEndpointRetry
    \/ FetchLoopEnd
    \/ FilterRows

SpecRestart == InitRestart /\ [][NextRestart]_vars

\* ---------------------------------------- the OAuth2Manager on its own
\* A manager as OAuth2Manager::new leaves it: nothing cached.
InitManager ==
    /\ quals = <<>>
    /\ table_opts = None
    /\ columns = <<>>
    /\ pc = "manager"
    /\ InitLocals
    /\ now = 0
    /\ token_requests = 0
    /\ cached_token = None
    /\ headers = 0
    /\ renewable_rows = <<>>
    /\ price_rows = <<>>
    /\ redispatch_rows = <<>>
    /\ grid_status_rows = <<>>
    /\ renewable_row_position = 0
    /\ price_row_position = 0
    /\ redispatch_row_position = 0
    /\ grid_status_row_position = 0
    /\ current_table = ""
    /\ last_call = "init"
    /\ emitted = <<>>

\* OAuth2Manager::get_token, called by whoever holds the manager; token
\* takes what it returns, err its error.
ManagerGetToken ==
    /\ pc = "manager"
    /\ token_requests < MaxTokens
    /\ \E reply \in TokenReplies :
         LET got == get_token(cached_token, now, reply, token_requests + 1)
         IN  /\ cached_token' = got.cache
             /\ token_requests' = IF got.requested THEN token_requests + 1
                                  ELSE token_requests
             /\ IF got.result.ok
                THEN /\ token' = Unwrap(got.result.v)
                     /\ err' = <<>>
                ELSE /\ err' = <<got.result.err>>
                     /\ UNCHANGED token
             /\ last_call' = IF got.requested THEN "get_token: requested"
                             ELSE "get_token: cached"
    /\ UNCHANGED <<quals, table_opts, columns, qi, pc, loc, filters, plans, all_rows,
                   filtered_rows, requests, plan_idx, step, response, gets, headers,
                   now, buffer_vars, emitted>>

\* OAuth2Manager::clear_cache
ManagerClearCache ==
    /\ pc = "manager"
    /\ cached_token' = None
    /\ last_call' = "clear_cache"
    /\ UNCHANGED <<scan_vars, fetch_vars, headers, now, token_requests, buffer_vars,
                   emitted>>

\* The host's clock advances between two calls of the manager.
ManagerTick ==
    /\ pc = "manager"
    /\ now < MaxClock
    /\ now' = now + 1
    /\ UNCHANGED <<scan_vars, fetch_vars, headers, cached_token, token_requests,
                   buffer_vars, host_vars>>

NextManager ==
    \/ ManagerGetToken
    \/ ManagerClearCache
    \/ ManagerTick

SpecManager == InitManager /\ [][NextManager]_vars

\* One scan: begin_scan with its requests one by one, then iter_scan,
\* re_scan and end_scan.
NextScan ==
    \/ QualCategorical
    \/ QualTimestamptz
    \/ QualTimestampString
    \/ QualIgnored
    \/ BuildFilters
    \/ RouteQuery
    \/ Tick
    \/ ProactiveRefresh
    \/ FetchEndpoint
    \/ RefreshAfter401
    \/ FetchEndpointRetry
    \/ FetchLoopEnd
    \/ FilterRows
    \/ IterScan
    \/ ReScan
    \/ EndScan

SpecScan == InitFresh /\ [][NextScan]_vars

\* begin_scan runs to its return: fetch_with_oauth_retry is straight-line
\* code between calls of the host (http::get, time::epoch_secs) that
\* return, so each of its steps is taken once it can be.
SpecScanFair ==
    /\ SpecScan
    /\ WF_vars(ProactiveRefresh)
    /\ WF_vars(FetchEndpoint)
    /\ WF_vars(RefreshAfter401)
    /\ WF_vars(FetchEndpointRetry)

\* ---------------------------------------------------------- properties
\* The timestamp_utc qualifiers of the scan that the loop of parse_quals
\* takes as bounds, by position: those with a timestamptz or string cell
\* under one of the operators ops.
TsBoundQuals(ops) ==
    {i \in 1..Len(quals) :
        /\ quals[i].field = "timestamp_utc"
        /\ quals[i].value.cell \in {"Timestamptz", "String"}
        /\ quals[i].operator \in ops}

LowerQuals == TsBoundQuals({">=", ">", "="})
UpperQuals == TsBoundQuals({"<", "<=", "="})
Last(S) == CHOOSE i \in S : \A j \in S : j <= i
LastLower == quals[Last(LowerQuals)]
LastUpper == quals[Last(UpperQuals)]

\* The calendar date a qualifier names: the UTC day of a timestamptz cell,
\* the date written in a string.
QualDate(q) ==
    IF q.value.cell = "Timestamptz"
    THEN DateStr(civil_from_days(q.value.micros \div TicksPerDay))
    ELSE DateStr(q.value.s.ymd)

\* The instant a qualifier names, when its literal is a timestamp: any
\* timestamptz cell, an RFC 3339 string, a calendar date (its midnight UTC).
IsTimestampLiteral(q) ==
    \/ q.value.cell = "Timestamptz" /\ q.value.micros \div TicksPerDay <= ChronoMaxDay
    \/ /\ q.value.cell = "String"
       /\ q.value.s.kind \in {"rfc3339", "date"}
       /\ ValidYMD(q.value.s.ymd)

QualInstant(q) ==
    IF q.value.cell = "Timestamptz" THEN q.value.micros
    ELSE days_from_civil(q.value.s.ymd) * TicksPerDay + q.value.s.tod - q.value.s.off

\* A literal with a time of day: a timestamptz cell or a string with a 'T'.
HasTimeOfDay(q) ==
    \/ q.value.cell = "Timestamptz"
    \/ q.value.cell = "String" /\ q.value.s.kind \in {"rfc3339", "naive"}

\* A literal that is a calendar date and nothing more.
IsDateOnly(q) ==
    q.value.cell = "String" /\ q.value.s.kind = "date" /\ ValidYMD(q.value.s.ymd)

PlusDays(date_str, n) == DateStr(civil_from_days(days_from_civil(date_str.ymd) + n))

Returned == filters # None
TimestampRange == Unwrap(filters).timestamp_range
Bounds == Unwrap(filters).timestamp_bounds

\* C1: when the last lower and the last upper timestamp_utc qualifier name
\* the same calendar date and parse_quals returns, the DateRange starts on
\* that date and ends on the day after it.
C1_SameDateNextDay ==
    (Returned /\ LowerQuals # {} /\ UpperQuals # {}
        /\ QualDate(LastLower) = QualDate(LastUpper))
    => TimestampRange = Some(DateRange(QualDate(LastLower),
                                       PlusDays(QualDate(LastLower), 1)))

\* C1 witness: a lower qualifier (>=) and a separate upper qualifier (<)
\* on one date, and parse_quals has returned.
C1_Witness ==
    /\ Returned /\ LowerQuals # {} /\ UpperQuals # {}
    /\ LastLower.operator = ">=" /\ LastUpper.operator = "<"
    /\ QualDate(LastLower) = QualDate(LastUpper)

\* C2: when the lower and the upper timestamp_utc qualifier are on
\* different calendar dates and both literals carry a time of day, the
\* DateRange ends on the day after the upper qualifier's date.
C2_CrossDayEndPlusOne ==
    (Returned /\ LowerQuals # {} /\ UpperQuals # {}
        /\ QualDate(LastLower) # QualDate(LastUpper)
        /\ HasTimeOfDay(LastLower) /\ HasTimeOfDay(LastUpper))
    => TimestampRange = Some(DateRange(QualDate(LastLower),
                                       PlusDays(QualDate(LastUpper), 1)))

\* C3: when the lower and the upper timestamp_utc qualifier are calendar
\* dates without a time of day, on different days, the DateRange ends on
\* the upper qualifier's date, unadjusted.
C3_DateOnlyEndUnadjusted ==
    (Returned /\ LowerQuals # {} /\ UpperQuals # {}
        /\ IsDateOnly(LastLower) /\ IsDateOnly(LastUpper)
        /\ QualDate(LastLower) # QualDate(LastUpper))
    => TimestampRange = Some(DateRange(QualDate(LastLower), QualDate(LastUpper)))

\* Does the instant t satisfy `timestamp_utc <operator> bound`?
Satisfies(t, operator, bound) ==
    IF operator = ">=" THEN t >= bound
    ELSE IF operator = ">" THEN t > bound
    ELSE IF operator = "<" THEN t < bound
    ELSE IF operator = "<=" THEN t <= bound
    ELSE t = bound

\* The instant of a row whose canonical timestamp is RFC 3339.
RowHasInstant(row) ==
    row.timestamp_utc.kind = "rfc3339" /\ ValidYMD(row.timestamp_utc.ymd)

RowInstant(row) ==
    days_from_civil(row.timestamp_utc.ymd) * TicksPerDay
        + row.timestamp_utc.tod - row.timestamp_utc.off

\* C4: every row left by the timestamp filter satisfies every timestamp_utc
\* qualifier of the scan (each one whose literal is a timestamp) under that
\* qualifier's own operator.
C4_RowsSatisfyEveryQual ==
    pc = "done" =>
        \A k \in 1..Len(filtered_rows) :
            \A i \in TsBoundQuals(Ops) :
                IsTimestampLiteral(quals[i]) =>
                    /\ RowHasInstant(filtered_rows[k])
                    /\ Satisfies(RowInstant(filtered_rows[k]), quals[i].operator,
                                 QualInstant(quals[i]))

\* Does a row satisfy every present bound under its recorded operator?
SatisfiesBounds(row, b) ==
    /\ RowHasInstant(row)
    /\ IsSome(b.start) =>
          Satisfies(RowInstant(row), Unwrap(b.start_operator), Unwrap(b.start))
    /\ IsSome(b.end) =>
          Satisfies(RowInstant(row), Unwrap(b.end_operator), Unwrap(b.end))

\* Positions of the fetched rows that satisfy the bounds, and the k-th of
\* them in ascending order.
KeptPositions == {i \in 1..Len(all_rows) : SatisfiesBounds(all_rows[i], Unwrap(Bounds))}
KthKept(k) ==
    CHOOSE i \in KeptPositions : Cardinality({j \in KeptPositions : j < i}) = k - 1

\* C5: with TimestampBounds present, the filtered rows are exactly the
\* fetched rows that satisfy every present bound under its recorded
\* operator, in their original order.
C5_FilterIsSatisfyingSubsequence ==
    (pc = "done" /\ IsSome(Bounds)) =>
        /\ Len(filtered_rows) = Cardinality(KeptPositions)
        /\ \A k \in 1..Len(filtered_rows) : filtered_rows[k] = all_rows[KthKept(k)]

\* C5 witness: both bounds present, the lower one strict; of two fetched
\* rows the first sits on the lower bound and is dropped, the second is
\* kept.
C5_Witness ==
    /\ pc = "done" /\ IsSome(Bounds)
    /\ IsSome(Unwrap(Bounds).start) /\ IsSome(Unwrap(Bounds).end)
    /\ Unwrap(Bounds).start_operator = Some(">")
    /\ Len(all_rows) = 2
    /\ RowHasInstant(all_rows[1])
    /\ RowInstant(all_rows[1]) = Unwrap(Unwrap(Bounds).start)
    /\ filtered_rows = <<all_rows[2]>>

\* The operator TimestampBounds records for a qualifier on one side.
RecordedOp(q, side) ==
    IF q.operator = "=" THEN (IF side = "lower" THEN ">=" ELSE "<=") ELSE q.operator

\* C6: when parse_quals returns a DateRange derived from a lower (upper)
\* timestamp_utc qualifier, TimestampBounds is present and holds that
\* qualifier's instant and operator as its start (end).
C6_DateAndInstantTogether ==
    Returned =>
        /\ LowerQuals # {} =>
              /\ IsSome(Bounds)
              /\ IsTimestampLiteral(LastLower)
              /\ Unwrap(Bounds).start = Some(QualInstant(LastLower))
              /\ Unwrap(Bounds).start_operator = Some(RecordedOp(LastLower, "lower"))
        /\ UpperQuals # {} =>
              /\ IsSome(Bounds)
              /\ IsTimestampLiteral(LastUpper)
              /\ Unwrap(Bounds).end = Some(QualInstant(LastUpper))
              /\ Unwrap(Bounds).end_operator = Some(RecordedOp(LastUpper, "upper"))

\* The timestamp_utc qualifiers whose literal is not a timestamp.
MalformedQuals == {i \in TsBoundQuals(Ops) : ~IsTimestampLiteral(quals[i])}

\* parse_quals has returned an error (begin_scan reports it as "Failed to
\* parse quals: ...").
ParseQualsFailed == pc = "error" /\ err[1] = "Failed to parse quals"

\* C7: a timestamp_utc qualifier whose literal is not a timestamp makes
\* parse_quals return an error and no filter set, and parse_quals returns
\* an error for no other reason.
C7_MalformedLiteralIsError ==
    /\ MalformedQuals # {} => ~Returned
    /\ ParseQualsFailed => MalformedQuals # {}

\* C8: with lower timestamp_utc qualifiers only, the DateRange is the lower
\* date and the day seven days after it; with upper qualifiers only, the
\* day seven days before the upper date and the upper date.
C8_SevenDayWindow ==
    Returned =>
        /\ (LowerQuals # {} /\ UpperQuals = {}) =>
              TimestampRange = Some(DateRange(QualDate(LastLower),
                                              PlusDays(QualDate(LastLower), 7)))
        /\ (UpperQuals # {} /\ LowerQuals = {}) =>
              TimestampRange = Some(DateRange(PlusDays(QualDate(LastUpper), -7),
                                              QualDate(LastUpper)))
        /\ (IsSome(TimestampRange) /\ (LowerQuals = {} \/ UpperQuals = {})) =>
              days_from_civil(Unwrap(TimestampRange).end.ymd)
                  - days_from_civil(Unwrap(TimestampRange).start.ymd) = 7

\* C8 witness: parse_quals has returned a window for a scan with an upper
\* qualifier (<=) and no lower one.
C8_Witness ==
    /\ Returned /\ UpperQuals # {} /\ LowerQuals = {}
    /\ LastUpper.operator = "<="
    /\ IsSome(TimestampRange)

NoTimestampQual == \A i \in 1..Len(quals) : quals[i].field # "timestamp_utc"

FallbackFrom == DateStr([y |-> 2024, m |-> 10, d |-> 18])
FallbackTo == DateStr([y |-> 2024, m |-> 10, d |-> 25])

LastTaken == quals[qi - 1]

\* C10: after the loop takes a timestamp_utc qualifier whose literal is a
\* timestamp, >= and > have set the lower bound and kept the operator, <
\* and <= have set the upper bound and kept the operator, and = has set the
\* lower bound with >= and the upper bound with <= to one instant, with
\* the start date equal to the end date.
C10_OperatorToBound ==
    (qi > 1 /\ (qi - 1) \in TsBoundQuals(Ops) /\ IsTimestampLiteral(LastTaken)) =>
        /\ LastTaken.operator \in {">=", ">"} =>
              /\ loc.ts_bound_start = Some(QualInstant(LastTaken))
              /\ loc.ts_bound_start_op = Some(LastTaken.operator)
              /\ loc.timestamp_start = Some(QualDate(LastTaken))
        /\ LastTaken.operator \in {"<", "<="} =>
              /\ loc.ts_bound_end = Some(QualInstant(LastTaken))
              /\ loc.ts_bound_end_op = Some(LastTaken.operator)
              /\ loc.timestamp_end = Some(QualDate(LastTaken))
        /\ LastTaken.operator = "=" =>
              /\ loc.ts_bound_start = Some(QualInstant(LastTaken))
              /\ loc.ts_bound_start_op = Some(">=")
              /\ loc.ts_bound_end = loc.ts_bound_start
              /\ loc.ts_bound_end_op = Some("<=")
              /\ loc.timestamp_start = Some(QualDate(LastTaken))
              /\ loc.timestamp_end = loc.timestamp_start

\* C10 witness: the loop has just taken an equality on a timestamptz cell
\* after a strict lower bound on another instant.
C10_Witness ==
    /\ qi = 3
    /\ quals[1].field = "timestamp_utc" /\ quals[1].operator = ">"
    /\ quals[1].value.cell = "Timestamptz"
    /\ quals[2].field = "timestamp_utc" /\ quals[2].operator = "="
    /\ quals[2].value.cell = "Timestamptz"
    /\ quals[1].value.micros # quals[2].value.micros

\* C11: with TimestampBounds present no row whose timestamp_utc fails to
\* parse is left after filtering, and the filter is no source of a scan
\* error: a scan whose rows were fetched ends its filter step with the
\* rows stored, and an error of begin_scan stems from parse_quals or
\* route_query.
C11_UnparseableRowsDropped ==
    /\ (pc = "done" /\ IsSome(Bounds)) =>
          \A k \in 1..Len(filtered_rows) : RowHasInstant(filtered_rows[k])
    /\ pc = "error" =>
          /\ err[1] \in {"Failed to parse quals", "Failed to route query"}
          /\ all_rows = <<>>

\* C11 witness: bounds are present, a fetched row whose timestamp is not
\* RFC 3339 came before a row that is kept, and the scan is done.
C11_Witness ==
    /\ pc = "done" /\ IsSome(Bounds)
    /\ Len(all_rows) = 2
    /\ ~RowHasInstant(all_rows[1])
    /\ filtered_rows = <<all_rows[2]>>

\* C12: with timestamp_bounds None the filtered rows are the fetched rows:
\* the same rows in the same order.
C12_NoBoundsIdentity ==
    (pc = "done" /\ Bounds = None) => filtered_rows = all_rows

\* C12 witness: a scan without bounds is done with two fetched rows, one
\* of which has a timestamp that does not parse.
C12_Witness ==
    /\ pc = "done" /\ Bounds = None
    /\ Len(all_rows) = 2
    /\ ~RowHasInstant(all_rows[2])
    /\ all_rows[1] # all_rows[2]

\* C13: filtering the filtered rows again with the same bounds returns
\* them unchanged.
C13_FilterIdempotent ==
    pc = "done" => filter_rows(filtered_rows, Bounds) = filtered_rows

\* C13 witness: the filter dropped the first of two fetched rows and kept
\* the second.
C13_Witness ==
    /\ pc = "done" /\ IsSome(Bounds)
    /\ Len(all_rows) = 2
    /\ RowHasInstant(all_rows[1])
    /\ filtered_rows = <<all_rows[2]>>
    /\ all_rows[1] # all_rows[2]

\* The (endpoint, product) pairs of the plans, in order.
PlanKeys == [k \in 1..Len(plans) |-> <<plans[k].endpoint, plans[k].product>>]

Entry(pt, dc, endpoint, product) ==
    [product_type |-> pt, data_category |-> dc, endpoint |-> endpoint, product |-> product]

\* The remote sources of the renewable table, product-major (solar,
\* wind_onshore, wind_offshore), then by category (forecast, extrapolation,
\* online_actual); wind_offshore has a source for online_actual only.
RenewableSources ==
    <<Entry("solar", "forecast", "prognose", "Solar"),
      Entry("solar", "extrapolation", "hochrechnung", "Solar"),
      Entry("solar", "online_actual", "onlinehochrechnung", "Solar"),
      Entry("wind_onshore", "forecast", "prognose", "Wind"),
      Entry("wind_onshore", "extrapolation", "hochrechnung", "Wind"),
      Entry("wind_onshore", "online_actual", "onlinehochrechnung", "Windonshore"),
      Entry("wind_offshore", "online_actual", "onlinehochrechnung", "Windoffshore")>>

\* The sources of the price table, in expansion order.
PriceSources ==
    <<[price_type |-> "spot_market", endpoint |-> "Spotmarktpreise"],
      [price_type |-> "negative_flag", endpoint |-> "NegativePreise"],
      [price_type |-> "market_premium", endpoint |-> "marktpraemie"],
      [price_type |-> "annual_market_value", endpoint |-> "Jahresmarktpraemie"]>>

\* The sources a filter set selects: all values of an unconstrained
\* dimension, the single value of a constrained one.
SelectedRenewable ==
    LET selected(e) ==
            /\ IsSome(Unwrap(filters).product_type) =>
                  e.product_type = Unwrap(Unwrap(filters).product_type)
            /\ IsSome(Unwrap(filters).data_category) =>
                  e.data_category = Unwrap(Unwrap(filters).data_category)
    IN  SelectSeq(RenewableSources, selected)

SelectedPrices ==
    LET selected(e) ==
            IsSome(Unwrap(filters).price_type) =>
                e.price_type = Unwrap(Unwrap(filters).price_type)
    IN  SelectSeq(PriceSources, selected)

Table == Unwrap(filters).table_name

ResolvedWindow ==
    IF IsSome(TimestampRange)
    THEN Unwrap(TimestampRange)
    ELSE [start |-> FallbackFrom, end |-> FallbackTo]

IsCalendarDate(s) == s.kind = "date" /\ ValidYMD(s.ymd)

WindowValid ==
    /\ IsCalendarDate(ResolvedWindow.start)
    /\ IsCalendarDate(ResolvedWindow.end)
    /\ days_from_civil(ResolvedWindow.start.ymd) <= days_from_civil(ResolvedWindow.end.ymd)

\* route_query has returned, with plans or with an error.
Routed == Returned /\ pc \notin {"quals", "route"}

DateErrors ==
    {"Invalid date format for date_from", "Invalid date format for date_to",
     "Invalid date range"}

\* C15: a renewable scan with product_type = wind_offshore and
\* data_category = forecast or extrapolation is routed to an empty plan
\* list, not to an error (the only error it can meet is that of its date
\* window).
C15_NoSourceIsEmptyNotError ==
    (Routed /\ Table = "renewable_energy_timeseries"
        /\ Unwrap(filters).product_type = Some("wind_offshore")
        /\ Unwrap(filters).data_category \in {Some("forecast"), Some("extrapolation")})
    => /\ WindowValid => (pc = "fetch" /\ plans = <<>>)
       /\ pc = "error" => err[2] \in DateErrors

\* C15 witness: route_query has returned no plan for wind_offshore
\* forecasts.
C15_Witness ==
    /\ pc = "fetch" /\ plans = <<>>
    /\ Table = "renewable_energy_timeseries"
    /\ Unwrap(filters).product_type = Some("wind_offshore")
    /\ Unwrap(filters).data_category = Some("forecast")

KnownProducts == {"solar", "wind_onshore", "wind_offshore"}
KnownCategories == {"forecast", "extrapolation", "online_actual"}
KnownPriceTypes == {"spot_market", "market_premium", "annual_market_value", "negative_flag"}

\* An equality filter of the scanned table names a value outside the known
\* set of its dimension, or the table is none of the four.
UnknownValue ==
    \/ /\ Table = "renewable_energy_timeseries"
       /\ \/ /\ IsSome(Unwrap(filters).product_type)
             /\ Unwrap(Unwrap(filters).product_type) \notin KnownProducts
          \/ /\ IsSome(Unwrap(filters).data_category)
             /\ Unwrap(Unwrap(filters).data_category) \notin KnownCategories
    \/ /\ Table = "electricity_market_prices"
       /\ IsSome(Unwrap(filters).price_type)
       /\ Unwrap(Unwrap(filters).price_type) \notin KnownPriceTypes
    \/ Table \notin TableNames

\* C16: when an equality filter of the scanned table names an unknown
\* value, or the table is unknown, route_query returns an error and
\* begin_scan holds no plan.
C16_UnknownValueIsError ==
    (Routed /\ UnknownValue) =>
        /\ pc = "error"
        /\ err[1] = "Failed to route query"
        /\ plans = <<>>

\* C16 witness: routing a renewable scan for solar with an unknown
\* category has failed on the category.
C16_Witness ==
    /\ pc = "error" /\ Returned
    /\ Table = "renewable_energy_timeseries"
    /\ Unwrap(filters).product_type = Some("solar")
    /\ Unwrap(filters).data_category = Some("history")
    /\ err = <<"Failed to route query", "Unknown data category">>

\* C17: every plan route_query returns carries the resolved date window
\* (the filter's DateRange, or the fallback window), and no two plans of
\* the list have the same (endpoint, product) pair.
C17_OneWindowPerScan ==
    pc = "fetch" =>
        /\ \A k \in 1..Len(plans) :
              /\ plans[k].date_from = ResolvedWindow.start
              /\ plans[k].date_to = ResolvedWindow.end
        /\ \A j, k \in 1..Len(plans) : j # k => PlanKeys[j] # PlanKeys[k]

\* C17 witness: route_query has returned the four plans of a price scan
\* whose filters hold a DateRange.
C17_Witness ==
    /\ pc = "fetch"
    /\ Table = "electricity_market_prices"
    /\ IsSome(TimestampRange)
    /\ Len(plans) = 4

\* C18: route_query rejects, for each of the four tables, a date window
\* whose start or end is not a calendar date or whose start is after its
\* end, and rejects no other window on account of its dates (start = end
\* is accepted); hence every plan has calendar dates with date_from <=
\* date_to.
C18_WindowValidated ==
    /\ (Routed /\ Table \in TableNames /\ ~WindowValid) =>
          /\ pc = "error"
          /\ err[1] = "Failed to route query"
          /\ err[2] \in DateErrors
          /\ plans = <<>>
    /\ (Routed /\ pc = "error" /\ err[2] \in DateErrors) => ~WindowValid
    /\ \A k \in 1..Len(plans) :
          /\ IsCalendarDate(plans[k].date_from)
          /\ IsCalendarDate(plans[k].date_to)
          /\ days_from_civil(plans[k].date_from.ymd) <= days_from_civil(plans[k].date_to.ymd)

\* C18 witness: route_query has returned a plan for a window that starts
\* and ends on one date.
C18_Witness ==
    /\ pc = "fetch"
    /\ Len(plans) > 0
    /\ plans[1].date_from = plans[1].date_to

\* A number written with a fixed count of digits.
Written(digits, n) == [digits |-> digits, n |-> n]

\* C19: the request target of every plan has the shape of its endpoint:
\* Jahresmarktpraemie carries the year of date_from and nothing else (any
\* product is ignored); marktpraemie carries month and year of date_from,
\* then month and year of date_to, months with two digits; every other
\* endpoint carries the plan's product (if any) and both dates as they
\* are; the base is without its trailing slash.
C19_UrlShapeByEndpoint ==
    pc = "fetch" =>
        \A k \in 1..Len(plans) :
            LET p == plans[k]
                u == p.api_url
            IN  /\ u.base = [host |-> api_base_url.host, slashes |-> 0]
                /\ u.endpoint = p.endpoint
                /\ p.endpoint = "Jahresmarktpraemie" =>
                      /\ u.product = None /\ u.dates = <<>>
                      /\ u.nums = <<Written(4, p.date_from.ymd.y)>>
                /\ p.endpoint = "marktpraemie" =>
                      /\ u.product = None /\ u.dates = <<>>
                      /\ u.nums = <<Written(2, p.date_from.ymd.m),
                                    Written(4, p.date_from.ymd.y),
                                    Written(2, p.date_to.ymd.m),
                                    Written(4, p.date_to.ymd.y)>>
                /\ p.endpoint \notin {"Jahresmarktpraemie", "marktpraemie"} =>
                      /\ u.product = p.product
                      /\ u.nums = <<>>
                      /\ u.dates = <<p.date_from, p.date_to>>
                /\ build_api_url(api_base_url, "Jahresmarktpraemie", Some("Solar"),
                                 p.date_from, p.date_to)
                     = build_api_url(api_base_url, "Jahresmarktpraemie", None,
                                     p.date_from, p.date_from)

\* C19 witness: the plans of a price scan whose window runs from one month
\* into the next include those of both special endpoints.
C19_Witness ==
    /\ pc = "fetch"
    /\ Len(plans) = 4
    /\ plans[3].endpoint = "marktpraemie"
    /\ plans[4].endpoint = "Jahresmarktpraemie"
    /\ plans[3].date_from.ymd.m # plans[3].date_to.ymd.m

\* C20: no request is issued before the plans are complete: while
\* parse_quals or route_query is still at work, and after either has
\* failed, no endpoint has been requested and no row fetched; when the
\* fetch loop has run, the plans are the full list route_query returns for
\* the filters, and the requests are the plans' targets in order.
C20_PlansBeforeRequests ==
    /\ pc \in {"quals", "route", "fetch", "error"} =>
          requests = <<>> /\ all_rows = <<>>
    /\ pc = "filter" =>
          /\ Returned
          /\ route_query(Unwrap(filters), api_base_url) = Ok(plans)
    /\ pc \in {"filter", "done"} =>
          requests = [k \in 1..Len(plans) |-> plans[k].api_url]

\* C20 witness: the fetch loop has requested the three endpoints of a scan
\* for solar.
C20_Witness ==
    /\ pc = "filter"
    /\ Len(requests) = 3
    /\ Unwrap(filters).product_type = Some("solar")

\* The last answer of http::get was a 200 whose body the table's parser
\* accepts.
WellFormedAnswer ==
    /\ IsSome(response)
    /\ ~Unwrap(response).failed
    /\ Unwrap(response).status_code = 200
    /\ Unwrap(response).body.valid

\* C21: the data category parse_renewable_csv derives from a plan's endpoint
\* is the category map_category_to_endpoint maps to that endpoint: for the
\* endpoint of every routed renewable plan (prognose, hochrechnung,
\* onlinehochrechnung) the derivation succeeds and gives the category back,
\* so a well-formed response of such a plan never fails to parse and every
\* row parsed carries the category of the endpoint it came from.
C21_CategoryIsInverseOfEndpoint ==
    /\ (InFetchLoop /\ Unwrap(filters).table_name = "renewable_energy_timeseries")
         => LET derived == extract_data_category(plans[plan_idx].endpoint)
            IN  /\ derived.ok
                /\ map_category_to_endpoint(Unwrap(derived.v))
                       = Ok(plans[plan_idx].endpoint)
    /\ (pc = "error" /\ Len(err) > 0 /\ err[1] = "Failed to parse renewable CSV")
         => ~WellFormedAnswer
    /\ (IsSome(filters) /\ Unwrap(filters).table_name = "renewable_energy_timeseries")
         => \A k \in 1..Len(all_rows) :
              map_category_to_endpoint(all_rows[k].data_category)
                  = Ok(all_rows[k].source_endpoint.endpoint)

\* The buffer and the position iter_scan reads for the table of the scan.
CurrentRows ==
    IF current_table = "renewable_energy_timeseries" THEN renewable_rows
    ELSE IF current_table = "electricity_market_prices" THEN price_rows
    ELSE IF current_table = "redispatch_events" THEN redispatch_rows
    ELSE IF current_table = "grid_status_timeseries" THEN grid_status_rows
    ELSE <<>>

CurrentPosition ==
    IF current_table = "renewable_energy_timeseries" THEN renewable_row_position
    ELSE IF current_table = "electricity_market_prices" THEN price_row_position
    ELSE IF current_table = "redispatch_events" THEN redispatch_row_position
    ELSE IF current_table = "grid_status_timeseries" THEN grid_status_row_position
    ELSE 0

\* The rows the host has been given since the scan was last at its start
\* are the first rows of the buffer, converted, in the buffer's order.
EmittedIsPrefix ==
    /\ Len(emitted) = CurrentPosition
    /\ Len(emitted) <= Len(CurrentRows)
    /\ \A k \in 1..Len(emitted) :
         Ok(emitted[k]) = row_to_cells(CurrentRows[k], columns)

\* C22: re_scan sets the four positions to 0 and leaves the buffered rows
\* and current_table as begin_scan stored them, so the rows iter_scan
\* returns after a re_scan are the rows it returns after begin_scan, in
\* the same order, however far the host had read.
C22_ReScanRestartsIteration ==
    pc = "done" =>
        /\ current_table = Unwrap(filters).table_name
        /\ CurrentRows = filtered_rows
        /\ last_call \in {"begin_scan", "re_scan"} =>
              /\ renewable_row_position = 0
              /\ price_row_position = 0
              /\ redispatch_row_position = 0
              /\ grid_status_row_position = 0
              /\ emitted = <<>>
        /\ EmittedIsPrefix

\* A re_scan has just returned in a scan of a table other than the
\* renewable one, on a buffer that holds rows.
C22_Witness ==
    /\ pc = "done"
    /\ last_call = "re_scan"
    /\ current_table = "electricity_market_prices"
    /\ Len(price_rows) = MaxRows

\* C23: iter_scan hands the buffered rows of the scanned table to the host
\* one per call, in the buffer's order, each once, and answers None from
\* then on; no position passes the length of its buffer and no call fails
\* on a buffered row.
C23_IterScanReadsBufferOnce ==
    pc = "done" =>
        /\ renewable_row_position <= Len(renewable_rows)
        /\ price_row_position <= Len(price_rows)
        /\ redispatch_row_position <= Len(redispatch_rows)
        /\ grid_status_row_position <= Len(grid_status_rows)
        /\ Len(emitted) = CurrentPosition
        /\ \A k \in 1..Len(emitted) :
             /\ k <= Len(CurrentRows)
             /\ row_to_cells(CurrentRows[k], columns) = Ok(emitted[k])
        /\ last_call = "iter_scan: row" => CurrentPosition >= 1
        /\ last_call = "iter_scan: none" =>
              /\ CurrentPosition = Len(CurrentRows)
              /\ IsNone(get(CurrentRows, CurrentPosition))
        /\ last_call # "iter_scan: error"

\* The host has read a full buffer and has then been answered None.
C23_Witness ==
    /\ pc = "done"
    /\ last_call = "iter_scan: none"
    /\ Len(emitted) = MaxRows
    /\ emitted[1] # emitted[2]

\* fetch_with_oauth_retry is at work on the plan of the loop.
InFetchWithRetry == InFetchLoop /\ step \in {"get", "retry", "retry_get"}

\* fetch_with_oauth_retry has returned: the loop goes on, or begin_scan
\* has returned its error.
RetryReturned == pc # "fetch" \/ step = "start"

\* The requests of one plan: at most two; the second one only after a 401
\* to the first, with the cache cleared and refilled by a token request;
\* a failure of the second ends begin_scan with its error.
AtMostOneRetry ==
    /\ gets <= 2
    /\ (InFetchLoop /\ step \in {"retry", "retry_get"}) =>
          /\ gets = 1
          /\ Unwrap(response) = HttpResponse(401, Body(FALSE, <<>>))
    /\ (InFetchLoop /\ step = "retry_get") =>
          /\ IsSome(cached_token)
          /\ Unwrap(cached_token).access_token = token_requests
          /\ token = token_requests
    /\ (gets = 2 /\ ~fetch_endpoint(Unwrap(response)).ok) =>
          /\ pc = "error"
          /\ err = <<"Failed to fetch endpoint", "Failed to fetch endpoint after retry",
                     fetch_endpoint(Unwrap(response)).err>>

\* C24: a 401 to a plan's request makes fetch_with_oauth_retry clear the
\* cache, get a new token and send the request once more; whatever fails
\* in that second request, a 401 included, is begin_scan's error; so a
\* plan takes at most two GET requests, and fetch_with_oauth_retry returns.
C24_RetryOnceThenFail ==
    /\ []AtMostOneRetry
    /\ InFetchWithRetry ~> RetryReturned

\* The second request of a plan has been answered 401 as well.
C24_Witness ==
    /\ gets = 2
    /\ pc = "error"
    /\ Unwrap(response).status_code = 401
    /\ err[3] = "TokenExpired"

\* What the claim lets a call of get_token do, from the cache and the
\* clock it finds.
GetTokenAsCached ==
    LET must_request ==
            \/ IsNone(cached_token)
            \/ now >= Unwrap(cached_token).expires_at - 300
        requested == token_requests' = token_requests + 1
    IN  /\ requested \/ token_requests' = token_requests
        /\ requested <=> must_request
        /\ ~requested =>
              /\ cached_token' = cached_token
              /\ token' = Unwrap(cached_token).access_token
              /\ err' = <<>>
        /\ (requested /\ err' = <<>>) =>
              /\ IsSome(cached_token')
              /\ Unwrap(cached_token').access_token = token_requests'
              /\ Unwrap(cached_token').expires_at > now
              /\ token' = token_requests'
        /\ (requested /\ err' # <<>>) =>
              /\ cached_token' = cached_token
              /\ token' = token

\* C25: get_token sends a token request only when nothing is cached or
\* the clock is within 300 seconds of the cached token's expiry, and
\* otherwise returns the cached token and leaves the cache; a request
\* that succeeds replaces the cache, one that fails leaves it; on an
\* empty cache, as clear_cache leaves it, get_token always sends a request.
C25_GetTokenRequestsWhenNeeded == [][ManagerGetToken => GetTokenAsCached]_vars

\* A token short of its refresh buffer has been returned from the cache
\* after a later clock reading, two requests having been sent before.
C25_Witness ==
    /\ pc = "manager"
    /\ last_call = "get_token: cached"
    /\ token_requests = 2
    /\ IsSome(cached_token)
    /\ token = 2
    /\ now = Unwrap(cached_token).expires_at - REFRESH_BUFFER_SECONDS - 1
    /\ now > 0

\* The requests of begin_scan so far are those of its first plans, in the
\* order of the plans.
RequestsInPlanOrder ==
    /\ Len(requests) <= Len(plans)
    /\ \A k \in 1..Len(requests) : requests[k] = plans[k].api_url
    /\ InFetchLoop => Len(requests) \in {plan_idx - 1, plan_idx}

\* What a GET request's answer does to begin_scan, by the answer.
AnswerHandled ==
    LET http == Unwrap(response')
        skipped == /\ ~http.failed
                   /\ \/ http.status_code = 404
                      \/ (http.status_code = 200 /\ http.body.empty)
        has_rows == ~http.failed /\ http.status_code = 200 /\ ~http.body.empty
        first_401 == ~http.failed /\ http.status_code = 401 /\ gets' = 1
    IN  /\ skipped =>
              /\ pc' = "fetch"
              /\ plan_idx' = plan_idx + 1
              /\ all_rows' = all_rows
              /\ err' = err
        /\ first_401 =>
              /\ pc' = "fetch"
              /\ plan_idx' = plan_idx
              /\ all_rows' = all_rows
        /\ (~skipped /\ ~has_rows /\ ~first_401) =>
              /\ pc' = "error"
              /\ Len(err') >= 2 /\ err'[1] = "Failed to fetch endpoint"
              /\ all_rows' = all_rows

PlanRows(k) ==
    SelectSeq(all_rows, LAMBDA r : /\ r.source_endpoint.endpoint = plans[k].endpoint
                                   /\ r.source_endpoint.product = plans[k].product)

\* The orders in which the plans of the scan can be executed.
PlanOrders ==
    {order \in [1..Len(plans) -> 1..Len(plans)] :
        \A i, j \in 1..Len(plans) : order[i] = order[j] => i = j}

\* The rows the plans yield when executed in `order`, merged, and the
\* same with each plan's rows filtered before the merge.
RECURSIVE Merged(_, _)
Merged(order, n) ==
    IF n = 0 THEN <<>> ELSE Merged(order, n - 1) \o PlanRows(order[n])

RECURSIVE MergedFiltered(_, _)
MergedFiltered(order, n) ==
    IF n = 0 THEN <<>>
    ELSE MergedFiltered(order, n - 1)
             \o filter_rows(PlanRows(order[n]), Unwrap(filters).timestamp_bounds)

RowSet(rows) == {rows[k] : k \in 1..Len(rows)}

\* C27: the rows begin_scan keeps by filtering the merged rows of all its
\* plans are the rows of each plan filtered on their own and then merged,
\* and in whatever order the plans are executed the same rows are kept.
C27_FilterCommutesWithMerge ==
    pc = "done" =>
        LET bounds == Unwrap(filters).timestamp_bounds
            in_order == [k \in 1..Len(plans) |-> k]
        IN  /\ all_rows = Merged(in_order, Len(plans))
            /\ filtered_rows = MergedFiltered(in_order, Len(plans))
            /\ \A order \in PlanOrders :
                 /\ filter_rows(Merged(order, Len(plans)), bounds)
                        = MergedFiltered(order, Len(plans))
                 /\ RowSet(filter_rows(Merged(order, Len(plans)), bounds))
                        = RowSet(filtered_rows)

\* Two plans have each had a row parsed from their response, and the
\* filter has dropped the first plan's row and kept the second plan's.
C27_Witness ==
    /\ pc = "done"
    /\ Len(plans) = 2
    /\ Len(all_rows) = 2
    /\ PlanRows(1) = <<all_rows[1]>>
    /\ PlanRows(2) = <<all_rows[2]>>
    /\ filtered_rows = <<all_rows[2]>>

\* An upper bound that admits instants on its own calendar day: <= with
\* any literal, < with a time of day after 00:00.
UpperAdmitsOwnDay(q) ==
    /\ q.operator \in {"<", "<="}
    /\ IsTimestampLiteral(q)
    /\ \/ q.operator = "<="
       \/ (q.value.cell = "Timestamptz" /\ q.value.micros % TicksPerDay > 0)
       \/ (q.value.cell = "String" /\ q.value.s.tod > 0)

\* The half-open window of days [range.start, range.end) holds the date.
WindowContains(range, date_str) ==
    /\ days_from_civil(range.start.ymd) <= days_from_civil(date_str.ymd)
    /\ days_from_civil(date_str.ymd) < days_from_civil(range.end.ymd)

\* C28: when the upper timestamp_utc bound of the scan admits instants on
\* its own calendar day, the DateRange parse_quals returns, read as the
\* half-open window of days [start, end), holds that day, whether or not
\* there is a lower bound.
C28_WindowHoldsUpperDay ==
    (Returned /\ UpperQuals # {} /\ UpperAdmitsOwnDay(LastUpper))
    => /\ IsSome(TimestampRange)
       /\ WindowContains(Unwrap(TimestampRange), QualDate(LastUpper))

\* C30: the plans route_query returns for renewable_energy_timeseries all
\* carry a product, those for the other three tables carry none, and
\* parse_endpoint_response, called with the table of the scan and one of
\* its plans, never fails with "Missing product in QueryPlan".
C30_ProductMatchesTable ==
    /\ pc = "error" => err # <<"Missing product in QueryPlan">>
    /\ (IsSome(filters) /\ pc # "error") =>
          \A k \in 1..Len(plans) :
              /\ Unwrap(filters).table_name = "renewable_energy_timeseries"
                    => /\ IsSome(plans[k].product)
                       /\ normalize_product_type(Unwrap(plans[k].product)).ok
              /\ Unwrap(filters).table_name # "renewable_energy_timeseries"
                    => IsNone(plans[k].product)
              /\ \A body \in {Body(TRUE, <<>>), Body(FALSE, <<>>)} :
                   parse_endpoint_response(Unwrap(filters).table_name, body, plans[k])
                       # Err(<<"Missing product in QueryPlan">>)

\* A scan of the price table has parsed rows from the response of its
\* plan, which carries no product.
C30_Witness ==
    /\ pc = "done"
    /\ Len(plans) >= 1
    /\ all_rows # <<>>
    /\ Unwrap(filters).table_name = "electricity_market_prices"
    /\ IsNone(plans[1].product)

\* The instance holds what an earlier scan has left: its rows, the host's
\* position in them, its table.
HoldsEarlierScan ==
    \E earlier \in EarlierFilters :
        /\ current_table = earlier.table_name
        /\ CurrentRows = EarlierRows(earlier)
        /\ CurrentPosition = 1
        /\ Len(renewable_rows) + Len(price_rows) + Len(redispatch_rows)
               + Len(grid_status_rows) = Len(CurrentRows)
        /\ renewable_row_position + price_row_position + redispatch_row_position
               + grid_status_row_position = CurrentPosition

\* C29: a begin_scan that fails, at whatever step, leaves the rows of the
\* four tables, their positions and current_table as they were when it
\* was called; nothing of the failed scan is stored.
C29_FailedScanStoresNothing ==
    /\ [](pc \in {"quals", "route", "fetch", "filter", "error"} => HoldsEarlierScan)
    /\ [][pc' # "done" => UNCHANGED buffer_vars]_vars

\* A scan of the renewable table has failed at its second plan, rows of
\* the first having been parsed, on an instance that holds part-read rows
\* of the price table.
C29_Witness ==
    /\ pc = "error"
    /\ plan_idx = 2
    /\ all_rows # <<>>
    /\ Unwrap(filters).table_name = "renewable_energy_timeseries"
    /\ current_table = "electricity_market_prices"
    /\ price_row_position = 1

====
